---- MODULE Spec2Model ----
(***************************************************************************)
(* Account-and-credential gateway: the session/token service (AuthService),*)
(* the request-authentication dependencies (JWT-only, API-key, flexible,   *)
(* beta gate) and the routes built on them, over the database tables and   *)
(* the Redis-compatible cache they share.                                   *)
(*                                                                         *)
(* Time is in seconds.  A cache key written at time t with TTL d is live   *)
(* while clock < t + d; a token with expiry e is valid while clock < e.    *)
(***************************************************************************)
EXTENDS Integers, Sequences, FiniteSets, TLC

\* ------------------------------------------------------------------ bounds
MaxPairs == 3
TickSeconds == 30
MaxClock == 60
MaxPending == 1

\* ------------------------------------------------------- program constants
JWT_USER_CACHE_TTL == 30
API_KEY_AUTH_CACHE_TTL == 60
LAST_USED_THROTTLE_TTL == 60
SESSION_TTL == 86400
MAX_ERROR_DUMPS == 100
jwt_expire_seconds == 60
refresh_token_expire_seconds == 90

Users == {1}
Keys == {"sk-1"}
Procs == {"p1", "p2"}

VARIABLES
    clock,        \* wall clock, seconds
    redisUp,      \* FALSE: every cache call raises
    users,        \* users table: id -> [exists, is_active, beta]
    apiKeys,      \* api_keys table: key -> [exists, user_id, is_active, config_type]
    lastUsed,     \* api_keys.last_used_at: key -> time of the last write (-1: never)
    minted,       \* token pairs minted so far: pair id -> [sub, iat]
    refreshReg,   \* cache: registry of valid refresh-token jtis (pair ids)
    blacklist,    \* cache: access-token jti (pair id) -> expiry of the blacklist key, 0 absent
    session,      \* cache: session of a user id -> expiry of the session key, 0 absent
    jwtCache,     \* cache: jwt_user:<id> -> [exp, is_active, beta], exp 0 absent
    keyCache,     \* cache: api_key_auth:<key> -> [exp, uid, is_active, beta, cfg], exp 0 absent
    throttle,     \* cache: last_used_throttle:<key> -> expiry, 0 absent
    touchPending, \* background last-used tasks scheduled and not yet run, per key
    last,         \* history: what the step just taken was, when a claim is about it
    acceptCount,  \* history: pair id -> number of refresh calls that accepted its refresh token
    loggedOut,    \* history: pair ids whose access token was presented to a successful logout
    revokedAll,   \* history: pair ids registered for a user when logout_all_devices returned
    rp,           \* in-flight refresh_tokens calls: process -> [pc, tok, newp, res]
    upstream,     \* stream translator: the upstream data lines consumed so far
    locals,       \* stream translator: the locals of convert_openai_stream_to_anthropic
    events,       \* stream translator: the events yielded so far
    accounts,     \* plugin accounts of the user: cookie_id -> [is_shared, quota per model]
    pool,         \* shared quota pool of the user: [quota per model, max_quota]
    conv,         \* history: the conversion just made, with the pool before a to-shared one
    userRows,     \* users table as the repositories see it: the rows, in order of their id
    keyRows,      \* api_keys table by key id: [exists, user_id, is_active]
    repoLast,     \* history: the repository call just made and what it reported
    db,           \* request scope: the session get_db handed out, and where its scope is
    committed,    \* request scope: number of writes committed to the database
    routeLast,    \* history: the route call just made, its upstream failure and its response
    feed,         \* stream translator, byte level: [text, pos, buffer, lines, pc]
    dumpFile,     \* error_dumps.json: [exists, records], and the calls made so far
    touchRun,     \* last-used tasks run step by step: [task per process, writes, started]
    gone,         \* history: when a user, or a key, last went from valid to invalid
    tokenRows,    \* oauth_tokens table: the rows, in order of their id
    oauthCb       \* OAuth callbacks in flight: [pc per process, started, provisioned, rows]

authVars == <<clock, redisUp, users, apiKeys, lastUsed, minted, refreshReg, blacklist,
              session, jwtCache, keyCache, throttle, touchPending, last,
              acceptCount, loggedOut, revokedAll, rp>>
streamVars == <<upstream, locals, events>>
quotaVars == <<accounts, pool, conv>>
repoVars == <<userRows, keyRows, repoLast>>
reqVars == <<db, committed, routeLast>>
lateVars == <<dumpFile, touchRun, gone, tokenRows, oauthCb>>
baseExtVars == <<streamVars, quotaVars, repoVars, reqVars, feed>>
extVars == <<streamVars, quotaVars, repoVars, reqVars, feed, lateVars>>
vars == <<authVars, extVars>>

dbVars == <<users, apiKeys, lastUsed>>
histVars == <<acceptCount, loggedOut, revokedAll>>

PairIds == 1..MaxPairs
Minted == 1..Len(minted)

\* ------------------------------------------------------------ credentials
Garbage == [typ |-> "garbage", id |-> 0]
AccessTok(p) == [typ |-> "access", id |-> p]
RefreshTok(p) == [typ |-> "refresh", id |-> p]
AccessToks == {AccessTok(p) : p \in Minted}
RefreshToks == {RefreshTok(p) : p \in Minted}
NoCred == [typ |-> "none", id |-> 0]
KeyCred(k) == [typ |-> "key", id |-> k]
UnknownKey == "sk-0"

\* ------------------------------------------- app.core.security (tokens)
AccessExp(p) == minted[p].iat + jwt_expire_seconds
RefreshExp(p) == minted[p].iat + refresh_token_expire_seconds

\* "payload" | "ExpiredSignatureError" | "JWTInvalidTokenError"
verify_access_token(tok) ==
    IF tok.typ # "access" THEN "JWTInvalidTokenError"
    ELSE IF clock >= AccessExp(tok.id) THEN "ExpiredSignatureError"
    ELSE "payload"

verify_refresh_token(tok) ==
    IF tok.typ # "refresh" THEN "JWTInvalidTokenError"
    ELSE IF clock >= RefreshExp(tok.id) THEN "ExpiredSignatureError"
    ELSE "payload"

\* jti of a token, 0 when the string carries none (empty or malformed)
extract_token_jti(tok) == IF tok.typ \in {"access", "refresh"} THEN tok.id ELSE 0

get_token_remaining_seconds(tok) ==
    IF tok.typ = "access" THEN AccessExp(tok.id) - clock
    ELSE IF tok.typ = "refresh" THEN RefreshExp(tok.id) - clock
    ELSE 0

\* --------------------------------------------- app.cache (RedisClient)
Live(exp) == exp > clock

is_token_blacklisted(jti) == Live(blacklist[jti])

is_refresh_token_valid(jti) == jti \in refreshReg /\ Live(RefreshExp(jti))

store_refresh_token(reg, jti) == reg \cup {jti}

revoke_refresh_token(reg, jti) == reg \ {jti}

revoke_all_user_refresh_tokens(reg, uid) == {j \in reg : minted[j].sub # uid}

NoJwtEntry == [exp |-> 0, is_active |-> FALSE, beta |-> 0]
NoKeyEntry == [exp |-> 0, uid |-> 0, is_active |-> FALSE, beta |-> 0, cfg |-> "none"]

\* ------------------------------------------------------------ AuthService
NoUser == [id |-> 0, is_active |-> FALSE, beta |-> 0]
DbUser(uid) == [id |-> uid, is_active |-> users[uid].is_active, beta |-> users[uid].beta]

\* create_token_pair: mint pair Len(minted)+1 for the user and register its refresh jti
create_token_pair(uid) ==
    LET np == Len(minted) + 1 IN
    [pair |-> np,
     minted |-> Append(minted, [sub |-> uid, iat |-> clock]),
     reg |-> store_refresh_token(refreshReg, np)]

\* verify_token, the try block: what it returns or raises
verify_token_try(tok) ==
    LET payload == verify_access_token(tok) IN
    IF payload # "payload" THEN payload
    ELSE IF ~redisUp THEN "RedisError"
    ELSE IF is_token_blacklisted(tok.id) THEN "TokenBlacklistedError"
    ELSE "payload"

\* verify_token, the except clauses: no raised message contains "expired"
verify_token(tok) ==
    LET r == verify_token_try(tok) IN
    CASE r = "payload" -> "ok"
      [] r = "ExpiredSignatureError" -> "TokenExpiredError"
      [] r = "JWTInvalidTokenError" -> "InvalidTokenError"
      [] OTHER -> "InvalidTokenError"

\* refresh_tokens up to the user checks: "pass" or the exception raised in the try block
refresh_tokens_check(tok) ==
    LET payload == verify_refresh_token(tok) IN
    IF payload # "payload" THEN payload
    ELSE IF ~redisUp THEN "RedisError"
    ELSE IF ~is_refresh_token_valid(tok.id) THEN "TokenBlacklistedError"
    ELSE IF ~users[minted[tok.id].sub].exists THEN "UserNotFoundError"
    ELSE IF ~users[minted[tok.id].sub].is_active THEN "AccountDisabledError"
    ELSE "pass"

\* refresh_tokens, the except clauses
refresh_tokens_except(r) ==
    CASE r = "pass" -> "ok"
      [] r = "ExpiredSignatureError" -> "TokenExpiredError"
      [] r = "JWTInvalidTokenError" -> "InvalidTokenError"
      [] r \in {"TokenBlacklistedError", "UserNotFoundError", "AccountDisabledError"} -> r
      [] OTHER -> "InvalidTokenError"

\* the rotation without the revocation of the old jti
refresh_tokens_rotate_kept(reg, oldJti, newJti) == reg

\* the mutant of refresh_tokens_rotate: the rotation drops the new jti with the old one
refresh_tokens_rotate_drops_new(reg, oldJti, newJti) == reg \ {oldJti, newJti}

\* the registry after a successful rotation: the new jti stored, the old one revoked
refresh_tokens_rotate(reg, oldJti, newJti) ==
    IF oldJti # 0 /\ newJti # 0 THEN revoke_refresh_token(reg, oldJti) ELSE reg

\* refresh_tokens as one call: [err, pair, minted, reg]
refresh_tokens(tok) ==
    LET err == refresh_tokens_except(refresh_tokens_check(tok)) IN
    IF err # "ok"
    THEN [err |-> err, pair |-> 0, minted |-> minted, reg |-> refreshReg]
    ELSE LET c == create_token_pair(minted[tok.id].sub) IN
         [err |-> "ok", pair |-> c.pair, minted |-> c.minted,
          reg |-> refresh_tokens_rotate(c.reg, tok.id, c.pair)]

\* get_current_user with the cache written before the is_active check
get_current_user_caches_before_check(tok) ==
    LET v == verify_token(tok) IN
    IF v # "ok" THEN [err |-> v, user |-> NoUser, cache |-> jwtCache]
    ELSE LET uid == minted[tok.id].sub
             written == IF redisUp
                        THEN [jwtCache EXCEPT ![uid] =
                                [exp |-> clock + JWT_USER_CACHE_TTL,
                                 is_active |-> users[uid].is_active,
                                 beta |-> users[uid].beta]]
                        ELSE jwtCache
         IN
         IF redisUp /\ Live(jwtCache[uid].exp)
         THEN [err |-> "ok",
               user |-> [id |-> uid, is_active |-> jwtCache[uid].is_active,
                         beta |-> jwtCache[uid].beta],
               cache |-> jwtCache]
         ELSE IF ~users[uid].exists
         THEN [err |-> "UserNotFoundError", user |-> NoUser, cache |-> jwtCache]
         ELSE IF ~users[uid].is_active
         THEN [err |-> "AccountDisabledError", user |-> NoUser, cache |-> written]
         ELSE [err |-> "ok", user |-> DbUser(uid), cache |-> written]

\* get_current_user: [err, user, cache]
get_current_user(tok) ==
    LET v == verify_token(tok) IN
    IF v # "ok" THEN [err |-> v, user |-> NoUser, cache |-> jwtCache]
    ELSE LET uid == minted[tok.id].sub IN
         IF redisUp /\ Live(jwtCache[uid].exp)
         THEN [err |-> "ok",
               user |-> [id |-> uid, is_active |-> jwtCache[uid].is_active,
                         beta |-> jwtCache[uid].beta],
               cache |-> jwtCache]
         ELSE IF ~users[uid].exists
         THEN [err |-> "UserNotFoundError", user |-> NoUser, cache |-> jwtCache]
         ELSE IF ~users[uid].is_active
         THEN [err |-> "AccountDisabledError", user |-> NoUser, cache |-> jwtCache]
         ELSE [err |-> "ok", user |-> DbUser(uid),
               cache |-> IF redisUp
                         THEN [jwtCache EXCEPT ![uid] =
                                 [exp |-> clock + JWT_USER_CACHE_TTL,
                                  is_active |-> users[uid].is_active,
                                  beta |-> users[uid].beta]]
                         ELSE jwtCache]

\* blacklist_token: the blacklist after the call
blacklist_token(bl, tok) ==
    LET jti == extract_token_jti(tok)
        remaining == get_token_remaining_seconds(tok)
    IN IF jti = 0 THEN bl
       ELSE IF remaining <= 0 THEN bl
       ELSE [bl EXCEPT ![jti] = clock + remaining]

\* logout: [session, blacklist, reg]
logout(uid, access_token, refresh_token) ==
    [session |-> [session EXCEPT ![uid] = 0],
     blacklist |-> blacklist_token(blacklist, access_token),
     reg |-> IF refresh_token.typ # "none" /\ extract_token_jti(refresh_token) # 0
             THEN revoke_refresh_token(refreshReg, extract_token_jti(refresh_token))
             ELSE refreshReg]

\* logout_all_devices that deletes the session and leaves the registry alone
logout_all_devices_session_only(uid) ==
    [session |-> [session EXCEPT ![uid] = 0], reg |-> refreshReg]

\* logout_all_devices: [session, reg]
logout_all_devices(uid) ==
    [session |-> [session EXCEPT ![uid] = 0],
     reg |-> revoke_all_user_refresh_tokens(refreshReg, uid)]

\* ---------------------------------------------------- app.api.deps (JWT-only)
\* HTTPBearer accepts the scheme in any letter case
SchemeAccepted(scheme) == scheme \in {"Bearer", "bearer"}

AuthStatus(err) ==
    CASE err = "ok" -> 200
      [] err \in {"InvalidTokenError", "TokenExpiredError", "TokenBlacklistedError"} -> 401
      [] err = "UserNotFoundError" -> 404
      [] err = "AccountDisabledError" -> 403
      [] OTHER -> 500

\* ------------------------------------------- app.api.deps (API-key-only)
NoKeyRow == [exists |-> FALSE, user_id |-> 0, is_active |-> FALSE, config_type |-> "none"]

\* APIKeyRepository.get_by_key
KeyRow(key) == IF key \in Keys THEN apiKeys[key] ELSE NoKeyRow

KeyAuthFail(st) ==
    [status |-> st, user |-> NoUser, cfg |-> "none", cache |-> keyCache, touch |-> FALSE]

\* the cache read left unguarded: a cache error leaves the inner try block
api_key_auth_read_unguarded(key) ==
    IF ~redisUp THEN "raise"
    ELSE IF key \in Keys /\ Live(keyCache[key].exp) THEN "hit"
    ELSE "miss"

\* the read of api_key_auth:<key> inside its own try/except: a cache error is logged
\* and the lookup goes on to the database, as on a miss
api_key_auth_read(key) ==
    IF ~redisUp THEN "miss"
    ELSE IF key \in Keys /\ Live(keyCache[key].exp) THEN "hit"
    ELSE "miss"

\* get_user_from_api_key: [status, user, cfg, cache, touch]
get_user_from_api_key(key) ==
    LET row == KeyRow(key) IN
    IF api_key_auth_read(key) = "raise" THEN KeyAuthFail(401)
    ELSE IF api_key_auth_read(key) = "hit"
    THEN [status |-> 200,
          user |-> [id |-> keyCache[key].uid, is_active |-> keyCache[key].is_active,
                    beta |-> keyCache[key].beta],
          cfg |-> keyCache[key].cfg, cache |-> keyCache, touch |-> TRUE]
    ELSE IF ~row.exists THEN KeyAuthFail(401)
    ELSE IF ~row.is_active THEN KeyAuthFail(401)
    ELSE IF ~users[row.user_id].exists THEN KeyAuthFail(404)
    ELSE IF ~users[row.user_id].is_active THEN KeyAuthFail(403)
    ELSE [status |-> 200, user |-> DbUser(row.user_id), cfg |-> row.config_type,
          cache |-> IF redisUp
                    THEN [keyCache EXCEPT ![key] =
                            [exp |-> clock + API_KEY_AUTH_CACHE_TTL, uid |-> row.user_id,
                             is_active |-> users[row.user_id].is_active,
                             beta |-> users[row.user_id].beta, cfg |-> row.config_type]]
                    ELSE keyCache,
          touch |-> TRUE]

\* ------------------------------------------------ app.api.deps_flexible
\* get_user_from_api_key_with_cache with the entry written before the is_active check
\* of the key
get_user_from_api_key_with_cache_early(key) ==
    LET row == KeyRow(key)
        written == IF redisUp /\ row.exists /\ users[row.user_id].exists
                   THEN [keyCache EXCEPT ![key] =
                           [exp |-> clock + API_KEY_AUTH_CACHE_TTL, uid |-> row.user_id,
                            is_active |-> users[row.user_id].is_active,
                            beta |-> users[row.user_id].beta, cfg |-> row.config_type]]
                   ELSE keyCache
    IN
    IF redisUp /\ key \in Keys /\ Live(keyCache[key].exp)
    THEN [status |-> 200,
          user |-> [id |-> keyCache[key].uid, is_active |-> keyCache[key].is_active,
                    beta |-> keyCache[key].beta],
          cfg |-> keyCache[key].cfg, cache |-> keyCache, touch |-> TRUE]
    ELSE IF ~row.exists THEN KeyAuthFail(401)
    ELSE IF ~row.is_active THEN [KeyAuthFail(401) EXCEPT !.cache = written]
    ELSE IF ~users[row.user_id].exists THEN KeyAuthFail(404)
    ELSE IF ~users[row.user_id].is_active THEN KeyAuthFail(403)
    ELSE [status |-> 200, user |-> DbUser(row.user_id), cfg |-> row.config_type,
          cache |-> written, touch |-> TRUE]

\* get_user_from_api_key_with_cache: [status, user, cfg, cache, touch]
get_user_from_api_key_with_cache(key) ==
    LET row == KeyRow(key) IN
    IF redisUp /\ key \in Keys /\ Live(keyCache[key].exp)
    THEN [status |-> 200,
          user |-> [id |-> keyCache[key].uid, is_active |-> keyCache[key].is_active,
                    beta |-> keyCache[key].beta],
          cfg |-> keyCache[key].cfg, cache |-> keyCache, touch |-> TRUE]
    ELSE IF ~row.exists THEN KeyAuthFail(401)
    ELSE IF ~row.is_active THEN KeyAuthFail(401)
    ELSE IF ~users[row.user_id].exists THEN KeyAuthFail(404)
    ELSE IF ~users[row.user_id].is_active THEN KeyAuthFail(403)
    ELSE [status |-> 200, user |-> DbUser(row.user_id), cfg |-> row.config_type,
          cache |-> IF redisUp
                    THEN [keyCache EXCEPT ![key] =
                            [exp |-> clock + API_KEY_AUTH_CACHE_TTL, uid |-> row.user_id,
                             is_active |-> users[row.user_id].is_active,
                             beta |-> users[row.user_id].beta, cfg |-> row.config_type]]
                    ELSE keyCache,
          touch |-> TRUE]

\* a resolved request: [status, user, cfg, jwt, keyc, touch]; touch is the key whose
\* last-used task was scheduled, "none" when no task was scheduled
FromKey(key, r) ==
    [status |-> r.status, user |-> r.user, cfg |-> r.cfg, jwt |-> jwtCache,
     keyc |-> r.cache, touch |-> IF r.touch THEN key ELSE "none"]

\* the JWT branch of the flexible strategies: every service exception becomes 401
FromJwtFlexible(tok) ==
    LET r == get_current_user(tok) IN
    [status |-> IF r.err = "ok" THEN 200 ELSE 401, user |-> r.user, cfg |-> "none",
     jwt |-> r.cache, keyc |-> keyCache, touch |-> "none"]

StartsWithSk_never(cred) == FALSE
StartsWithSk(cred) == cred.typ = "key"

get_user_flexible(cred) ==
    IF StartsWithSk(cred)
    THEN FromKey(cred.id, get_user_from_api_key_with_cache(cred.id))
    ELSE FromJwtFlexible(cred)

\* x_api_key is the value of the X-Api-Key header: a key string, "" for a
\* header with an empty value, "none" when the header is absent; the
\* dependency get_user_from_x_api_key returns None on "if not x_api_key"
get_user_flexible_with_x_api_key_bearer_first(cred, x_api_key) ==
    IF cred.typ # "none" THEN get_user_flexible(cred)
    ELSE IF x_api_key \notin {"none", ""}
    THEN FromKey(x_api_key, get_user_from_api_key_with_cache(x_api_key))
    ELSE [status |-> 401, user |-> NoUser, cfg |-> "none", jwt |-> jwtCache,
          keyc |-> keyCache, touch |-> "none"]
get_user_flexible_with_x_api_key(cred, x_api_key) ==
    IF x_api_key \notin {"none", ""}
    THEN FromKey(x_api_key, get_user_from_api_key_with_cache(x_api_key))
    ELSE IF cred.typ = "none"
    THEN [status |-> 401, user |-> NoUser, cfg |-> "none", jwt |-> jwtCache,
          keyc |-> keyCache, touch |-> "none"]
    ELSE get_user_flexible(cred)

\* --------------------------------------------------- app.api.deps_beta
\* require_beta_user on a resolved user: the status of the gate
require_beta_user(user) == IF user.beta # 1 THEN 403 ELSE 200

\* ------------------------------------------- app.api.routes.anthropic
\* the mutant of create_message_config_type: a valid X-Api-Type header wins over the key
create_message_config_type_header_first(cfg, api_type) ==
    IF api_type \in {"kiro", "antigravity"} THEN api_type ELSE cfg

\* create_message: the backend chosen for the resolved user and the X-Api-Type header
create_message_config_type(cfg, api_type) ==
    IF cfg = "none"
    THEN IF api_type \in {"kiro", "antigravity"} THEN api_type ELSE "none"
    ELSE cfg

\* create_message: [status, upstream] for a resolved user
create_message(user, cfg, api_type) ==
    LET config_type == create_message_config_type(cfg, api_type)
        use_kiro == config_type = "kiro"
    IN IF use_kiro /\ user.beta # 1
       THEN [status |-> 403, upstream |-> "none"]
       ELSE [status |-> 200, upstream |-> IF use_kiro THEN "kiro" ELSE "antigravity"]

\* -------------------------------------------------------- stream translator
\* convert_openai_stream_to_anthropic, over the data lines of the upstream
\* SSE stream.  A line is what json.loads gives for it: choices FALSE stands
\* for a line the loop skips ([DONE], invalid JSON, no choices); usage is
\* "absent", "object" or "null" (the JSON value of the usage key); reasoning
\* and content are the delta's strings ("" when absent or empty);
\* tool_calls is the delta's list when has_tool_calls.  A tool-call fragment
\* is [id, index, name, arguments] with "" for an absent id and "none" for
\* an absent function.name or function.arguments.
MaxLines == 4
MaxWrites == 2
MaxCommitted == 3
MaxBytes == 4
MaxDumps == 110
MaxTouches == 3
MaxTokenRows == 4
MaxCallbacks == 6

STOP_REASON_FROM_OPENAI(finish_reason) ==
    CASE finish_reason = "stop" -> "end_turn"
      [] finish_reason = "length" -> "max_tokens"
      [] finish_reason = "tool_calls" -> "tool_use"
      [] finish_reason = "content_filter" -> "end_turn"
      [] finish_reason = "function_call" -> "tool_use"
      [] OTHER -> "end_turn"

StreamLocals ==
    [pc |-> "init", finish_reason |-> "none", current_tool_calls |-> <<>>,
     current_block_index |-> 0, thinking_block_started |-> FALSE,
     thinking_block_stopped |-> FALSE, text_block_started |-> FALSE]

\* lines 593-603, 633-641, 684-692: end the thinking block if it is open
close_thinking_block_same_index(s) ==
    IF s.thinking_block_started /\ ~s.thinking_block_stopped
    THEN [st |-> [s EXCEPT !.thinking_block_stopped = TRUE],
          out |-> <<[type |-> "content_block_stop", index |-> s.current_block_index]>>]
    ELSE [st |-> s, out |-> <<>>]
close_thinking_block(s) ==
    IF s.thinking_block_started /\ ~s.thinking_block_stopped
    THEN [st |-> [s EXCEPT !.thinking_block_stopped = TRUE,
                           !.current_block_index = @ + 1],
          out |-> <<[type |-> "content_block_stop", index |-> s.current_block_index]>>]
    ELSE [st |-> s, out |-> <<>>]

\* lines 560-587
reasoning_delta(s, text) ==
    IF text = "" THEN [st |-> s, out |-> <<>>]
    ELSE [st |-> [s EXCEPT !.thinking_block_started = TRUE],
          out |-> (IF s.thinking_block_started THEN <<>>
                   ELSE <<[type |-> "content_block_start",
                           index |-> s.current_block_index, block |-> "thinking"]>>)
                  \o <<[type |-> "content_block_delta", index |-> s.current_block_index,
                        delta |-> "thinking_delta", text |-> text]>>]

\* lines 590-629
content_delta(s, text) ==
    IF text = "" THEN [st |-> s, out |-> <<>>]
    ELSE LET c == close_thinking_block(s)
             i == c.st.current_block_index
         IN [st |-> [c.st EXCEPT !.text_block_started = TRUE],
             out |-> c.out
                     \o (IF c.st.text_block_started THEN <<>>
                         ELSE <<[type |-> "content_block_start", index |-> i,
                                 block |-> "text"]>>)
                     \o <<[type |-> "content_block_delta", index |-> i,
                           delta |-> "text_delta", text |-> text]>>]

\* lines 644-661: the key of current_tool_calls a fragment is correlated to
tool_call_index(calls, tc) ==
    LET byId == {i \in 1..Len(calls) : calls[i].id = tc.id}
    IN IF tc.id # "" /\ byId # {}
       THEN calls[CHOOSE i \in byId : \A j \in byId : i <= j].idx
       ELSE IF tc.id # "" THEN Len(calls) ELSE tc.index

\* lines 663-680: one fragment merged into current_tool_calls (a dict, kept
\* as the sequence of its items in insertion order)
accumulate_tool_call(calls, tc) ==
    LET idx == tool_call_index(calls, tc)
        have == \E i \in 1..Len(calls) : calls[i].idx = idx
        base == IF have THEN calls
                ELSE Append(calls, [idx |-> idx, id |-> tc.id, name |-> "",
                                    arguments |-> <<>>])
        at == CHOOSE i \in 1..Len(base) : base[i].idx = idx
    IN [base EXCEPT ![at] =
           [idx |-> idx,
            id |-> IF tc.id # "" THEN tc.id ELSE @.id,
            name |-> IF tc.name # "none" THEN tc.name ELSE @.name,
            arguments |-> IF tc.arguments # "none"
                          THEN Append(@.arguments, tc.arguments) ELSE @.arguments]]

RECURSIVE accumulate_tool_calls(_, _)
accumulate_tool_calls(calls, tcs) ==
    IF tcs = <<>> THEN calls
    ELSE accumulate_tool_calls(accumulate_tool_call(calls, Head(tcs)), Tail(tcs))

\* lines 632-680
tool_calls_delta(s, line) ==
    IF ~line.has_tool_calls THEN [st |-> s, out |-> <<>>]
    ELSE LET c == close_thinking_block(s)
         IN [st |-> [c.st EXCEPT !.current_tool_calls =
                                     accumulate_tool_calls(@, line.tool_calls)],
             out |-> c.out]

\* lines 524-680: one line of the buffer.  data['usage'].get (line 544) is
\* outside every try block: on a null usage it raises AttributeError, which
\* leaves the generator
process_line(s, line) ==
    IF line.usage = "null" THEN [st |-> [s EXCEPT !.pc = "failed"], out |-> <<>>]
    ELSE IF ~line.choices THEN [st |-> s, out |-> <<>>]
    ELSE LET s1 == IF line.finish_reason # "none"
                   THEN [s EXCEPT !.finish_reason = line.finish_reason] ELSE s
             r == reasoning_delta(s1, line.reasoning)
             c == content_delta(r.st, line.content)
             t == tool_calls_delta(c.st, line)
         IN [st |-> t.st, out |-> r.out \o c.out \o t.out]

\* lines 724-733, 749: json.loads of the accumulated arguments; the fragments
\* "{\"k\":1" and "}" make a non-empty object only as that pair
input_data(arguments) == IF arguments = <<"{k:1", "}">> THEN "{k:1}" ELSE "{}"

\* lines 720-765
RECURSIVE tool_blocks(_, _)
tool_blocks(calls, current_block_index) ==
    IF calls = <<>> THEN <<>>
    ELSE LET tc == Head(calls)
             block_index == current_block_index + tc.idx
         IN <<[type |-> "content_block_start", index |-> block_index,
               block |-> "tool_use"]>>
            \o (IF input_data(tc.arguments) # "{}"
                THEN <<[type |-> "content_block_delta", index |-> block_index,
                        delta |-> "input_json_delta",
                        text |-> input_data(tc.arguments)]>>
                ELSE <<>>)
            \o <<[type |-> "content_block_stop", index |-> block_index]>>
            \o tool_blocks(Tail(calls), current_block_index)

\* lines 767-773
stop_reason_ignoring_tools(s) ==
    IF s.finish_reason # "none" THEN STOP_REASON_FROM_OPENAI(s.finish_reason)
    ELSE "end_turn"
stop_reason(s) ==
    IF s.current_tool_calls # <<>> THEN "tool_use"
    ELSE IF s.finish_reason # "none" THEN STOP_REASON_FROM_OPENAI(s.finish_reason)
    ELSE "end_turn"

\* lines 775-792
message_end(s) ==
    <<[type |-> "message_delta", stop_reason |-> stop_reason(s)],
      [type |-> "message_stop"]>>

\* lines 682-792: after the upstream has ended
stream_end(s) ==
    LET c == close_thinking_block(s)
        i == c.st.current_block_index
    IN c.out
       \o (IF c.st.text_block_started THEN <<>>
           ELSE <<[type |-> "content_block_start", index |-> i, block |-> "text"]>>)
       \o <<[type |-> "content_block_stop", index |-> i]>>
       \o tool_blocks(c.st.current_tool_calls, i + 1)
       \o message_end(c.st)

\* --------------------------------------------------------------- quota pool
\* PluginAPIService.update_account_type and the quota pool it updates; the
\* route (plugin_api.py 282-331) passes the call through.
Cookies == {"c1", "c2"}
Models == {"m1", "m2"}
AccountQuota == [c \in Cookies |-> [m \in Models |-> IF c = "c1" /\ m = "m2" THEN 0 ELSE 1]]
NoConv == [cookie_id |-> "none", is_shared |-> 0, before |-> [m \in Models |-> 0],
           max_before |-> 0]

\* exclusive -> shared: every model's pool quota grows by account_quota * 2
\* and max_quota by 2; shared -> exclusive: the same amounts are taken away
pool_after_conversion_one_back(pl, quota, is_shared) ==
    IF is_shared = 1
    THEN [quota |-> [m \in Models |-> pl.quota[m] + quota[m] * 2],
          max_quota |-> pl.max_quota + 2]
    ELSE [quota |-> [m \in Models |-> pl.quota[m] - quota[m]],
          max_quota |-> pl.max_quota - 2]
pool_after_conversion(pl, quota, is_shared) ==
    IF is_shared = 1
    THEN [quota |-> [m \in Models |-> pl.quota[m] + quota[m] * 2],
          max_quota |-> pl.max_quota + 2]
    ELSE [quota |-> [m \in Models |-> pl.quota[m] - quota[m] * 2],
          max_quota |-> pl.max_quota - 2]

update_account_type(accts, pl, cookie_id, is_shared) ==
    IF accts[cookie_id].is_shared = is_shared
    THEN [accounts |-> accts, pool |-> pl]
    ELSE [accounts |-> [accts EXCEPT ![cookie_id].is_shared = is_shared],
          pool |-> pool_after_conversion(pl, accts[cookie_id].quota, is_shared)]

\* ------------------------------------------------------------- repositories
\* UserRepository / UserService over users rows [username, oauth_id,
\* avatar_url, trust_level] (oauth_id "none": NULL; the id of a row is its
\* position), and APIKeyRepository over api_keys rows by key id.
KeyIds == {1, 2}
NoCall == [op |-> "none", ok |-> TRUE, oauth_id |-> "none", avatar_url |-> "none",
           trust_level |-> 0, key_id |-> 0, user_id |-> 0]

\* UserRepository.create: [err, rows]
UserRepository_create(rows, username, oauth_id, avatar_url, trust_level) ==
    IF \E i \in 1..Len(rows) : rows[i].username = username
    THEN [err |-> "UserAlreadyExistsError", rows |-> rows]
    ELSE IF oauth_id # "none" /\ \E i \in 1..Len(rows) : rows[i].oauth_id = oauth_id
    THEN [err |-> "UserAlreadyExistsError", rows |-> rows]
    ELSE [err |-> "ok",
          rows |-> Append(rows, [username |-> username, oauth_id |-> oauth_id,
                                 avatar_url |-> avatar_url, trust_level |-> trust_level])]

\* UserService.create_user_from_oauth: [err, rows]
\* UserRepository.update as its code reads, on a table without unique constraints
UserRepository_update_unconstrained(rows, user_id, field, value) ==
    IF user_id \notin 1..Len(rows) THEN [err |-> "UserNotFoundError", rows |-> rows]
    ELSE [err |-> "ok",
          rows |-> IF field = "username" THEN [rows EXCEPT ![user_id].username = value]
                   ELSE [rows EXCEPT ![user_id].oauth_id = value]]

\* user_repository.py lines 137-176: get_by_id, setattr of the allowed field, flush.
\* The users table has a unique username and a unique oauth_id (NULLs apart): a flush
\* that would break either raises IntegrityError and the statement changes no row.
UserRepository_update(rows, user_id, field, value) ==
    IF user_id \notin 1..Len(rows) THEN [err |-> "UserNotFoundError", rows |-> rows]
    ELSE LET updated == IF field = "username" THEN [rows EXCEPT ![user_id].username = value]
                        ELSE [rows EXCEPT ![user_id].oauth_id = value]
         IN IF \E i \in 1..Len(rows) :
                  /\ i # user_id
                  /\ \/ updated[i].username = updated[user_id].username
                     \/ /\ updated[user_id].oauth_id # "none"
                        /\ updated[i].oauth_id = updated[user_id].oauth_id
            THEN [err |-> "IntegrityError", rows |-> rows]
            ELSE [err |-> "ok", rows |-> updated]

create_user_from_oauth(rows, oauth_data) ==
    LET existing == {i \in 1..Len(rows) : rows[i].oauth_id = oauth_data.oauth_id}
    IN IF existing # {}
       THEN LET user_id == CHOOSE i \in existing : TRUE
            IN [err |-> "ok",
                rows |-> [rows EXCEPT ![user_id].avatar_url = oauth_data.avatar_url,
                                      ![user_id].trust_level = oauth_data.trust_level]]
       ELSE UserRepository_create(rows, oauth_data.username, oauth_data.oauth_id,
                                  oauth_data.avatar_url, oauth_data.trust_level)

\* APIKeyRepository.delete: [ok, rows]; key_id may be the id of no row
APIKeyRepository_delete_any_user(rows, key_id, user_id) ==
    IF key_id \in KeyIds /\ rows[key_id].exists
    THEN [ok |-> TRUE,
          rows |-> [rows EXCEPT ![key_id] =
                       [exists |-> FALSE, user_id |-> 0, is_active |-> FALSE]]]
    ELSE [ok |-> FALSE, rows |-> rows]
APIKeyRepository_delete(rows, key_id, user_id) ==
    IF key_id \in KeyIds /\ rows[key_id].exists /\ rows[key_id].user_id = user_id
    THEN [ok |-> TRUE,
          rows |-> [rows EXCEPT ![key_id] =
                       [exists |-> FALSE, user_id |-> 0, is_active |-> FALSE]]]
    ELSE [ok |-> FALSE, rows |-> rows]

\* APIKeyRepository.update_status: [ok, rows]; ok FALSE stands for None
APIKeyRepository_update_status(rows, key_id, user_id, is_active) ==
    IF key_id \in KeyIds /\ rows[key_id].exists /\ rows[key_id].user_id = user_id
    THEN [ok |-> TRUE, rows |-> [rows EXCEPT ![key_id].is_active = is_active]]
    ELSE [ok |-> FALSE, rows |-> rows]

\* ------------------------------------------- stream translator, byte level
\* anthropic_adapter.py 513-530. A byte of the upstream is "a" (an ASCII byte of a line),
\* "n" (the newline), or "L" / "T" (the lead and the trail byte of one two-byte UTF-8
\* character); a decoded character is "a", "n" or "LT"
NoFeed == [text |-> <<>>, pos |-> 0, buffer |-> <<>>, lines |-> <<>>, pc |-> "init"]

\* line 518, chunk.decode('utf-8'): [ok, chars]; ok is FALSE when the bytes are not
\* whole characters, and decode raises UnicodeDecodeError
RECURSIVE utf8_decode(_)
utf8_decode(chunk) ==
    IF chunk = <<>> THEN [ok |-> TRUE, chars |-> <<>>]
    ELSE IF Head(chunk) = "T" THEN [ok |-> FALSE, chars |-> <<>>]
    ELSE IF Head(chunk) = "L"
    THEN IF Len(chunk) >= 2 /\ chunk[2] = "T"
         THEN LET r == utf8_decode(SubSeq(chunk, 3, Len(chunk)))
              IN [ok |-> r.ok, chars |-> <<"LT">> \o r.chars]
         ELSE [ok |-> FALSE, chars |-> <<>>]
    ELSE LET r == utf8_decode(Tail(chunk))
         IN [ok |-> r.ok, chars |-> <<Head(chunk)>> \o r.chars]

\* lines 524-530, while '\n' in buffer: the lines split off the buffer (an empty line
\* is skipped) appended to lines, and what stays in the buffer
RECURSIVE split_lines(_, _)
split_lines(buffer, lines) ==
    IF \A k \in 1..Len(buffer) : buffer[k] # "n" THEN [lines |-> lines, buffer |-> buffer]
    ELSE LET k == CHOOSE j \in 1..Len(buffer) :
                      buffer[j] = "n" /\ \A i \in 1..(j - 1) : buffer[i] # "n"
             line == SubSeq(buffer, 1, k - 1)
         IN split_lines(SubSeq(buffer, k + 1, Len(buffer)),
                        IF line = <<>> THEN lines ELSE Append(lines, line))

\* ------------------------------------------------------- request scope
\* db/session.py get_db: the session of one request and the position of its scope.
\* tx is the session's transaction: "open", "committed" or "rolled_back";
\* raised is the exception that left the scope ("none": the scope ended normally)
NoSession ==
    [pc |-> "none", pending |-> 0, base |-> 0, commit_calls |-> 0, rollback_calls |-> 0,
     tx |-> "none", closed |-> FALSE, exc |-> "none", raised |-> "none"]

\* the mutant of get_db_exit: a session whose commit does not depend on the request's outcome
get_db_exit_always_commits(s, commit_ok, rollback_ok) ==
    [s EXCEPT !.pc = "exited", !.commit_calls = @ + 1, !.tx = "committed",
              !.closed = TRUE, !.raised = s.exc]

\* lines 113-121: the generator is resumed after the request (s.exc = "none") or has the
\* request's exception thrown into it at the yield. commit_ok and rollback_ok say
\* whether session.commit() and session.rollback() succeed when they are called.
\* `except Exception` does not catch a BaseException (a cancelled request); leaving
\* `async with` closes the session, and closing discards a transaction still open.
get_db_exit(s, commit_ok, rollback_ok) ==
    LET tried ==
            IF s.exc # "none" THEN s
            ELSE IF commit_ok
            THEN [s EXCEPT !.commit_calls = @ + 1, !.tx = "committed"]
            ELSE [s EXCEPT !.commit_calls = @ + 1, !.exc = "Exception"]
        handled ==
            IF tried.exc = "Exception"
            THEN [tried EXCEPT !.rollback_calls = @ + 1,
                               !.tx = IF rollback_ok THEN "rolled_back" ELSE @]
            ELSE tried
    IN [handled EXCEPT !.pc = "exited", !.closed = TRUE, !.raised = handled.exc,
                       !.tx = IF @ = "open" THEN "rolled_back" ELSE @]

\* an upstream failure as the service raises it: kind is the exception class
NoExc == [kind |-> "none", status |-> 0]
NoRoute ==
    [route |-> "none", exc |-> NoExc, stream |-> FALSE, body |-> "none", status |-> 0,
     raised |-> FALSE]

\* routes/anthropic.py 346-412, POST /v1/messages/count_tokens: the status of the response
\* to a request body. body is "valid", "not_json" (raw_request.json() raises), "no_model",
\* "no_messages" (the two ValueErrors of the route) or "messages_not_list" (the loop over
\* messages raises TypeError); every exception is answered by the one except clause
count_tokens(body) == IF body = "valid" THEN 200 ELSE 500

\* routes/plugin_api.py 145-162, GET /plugin-api/accounts: [status, raised], raised
\* saying that the response is an HTTPException raised by the route
get_accounts(exc) ==
    IF exc.kind = "none" THEN [status |-> 200, raised |-> FALSE]
    ELSE IF exc.kind = "ValueError" THEN [status |-> 400, raised |-> TRUE]
    ELSE [status |-> 500, raised |-> TRUE]

\* routes/plugin_api.py 515-569, POST /plugin-api/chat/completions: a streaming
\* request returns its StreamingResponse before the service is called
chat_completions(stream, exc) ==
    IF stream THEN [status |-> 200, raised |-> FALSE]
    ELSE IF exc.kind = "none" THEN [status |-> 200, raised |-> FALSE]
    ELSE IF exc.kind = "ValueError" THEN [status |-> 400, raised |-> TRUE]
    ELSE [status |-> 500, raised |-> TRUE]

\* routes/kiro.py 159-179, GET /kiro/accounts: an UpstreamAPIError is answered with a
\* JSONResponse, which is returned and not raised
list_accounts(exc) ==
    IF exc.kind = "none" THEN [status |-> 200, raised |-> FALSE]
    ELSE IF exc.kind = "UpstreamAPIError" THEN [status |-> exc.status, raised |-> FALSE]
    ELSE [status |-> 500, raised |-> TRUE]

\* ------------------------------------------------------------------ Init
NoLast == [op |-> "none", uid |-> 0]
IdleProc == [pc |-> "idle", tok |-> NoCred, newp |-> 0, res |-> "none"]

NoCallbacks ==
    [pc |-> [q \in Procs |-> 0], started |-> 0, provisioned |-> [u \in {1, 2} |-> 0],
     rows |-> <<>>]

Init ==
    /\ clock = 0
    /\ redisUp = TRUE
    /\ users = [u \in Users |-> [exists |-> TRUE, is_active |-> TRUE, beta |-> 0]]
    /\ apiKeys = [k \in Keys |-> NoKeyRow]
    /\ lastUsed = [k \in Keys |-> -1]
    /\ minted = <<>>
    /\ refreshReg = {}
    /\ blacklist = [p \in PairIds |-> 0]
    /\ session = [u \in Users |-> 0]
    /\ jwtCache = [u \in Users |-> NoJwtEntry]
    /\ keyCache = [k \in Keys |-> NoKeyEntry]
    /\ throttle = [k \in Keys |-> 0]
    /\ touchPending = [k \in Keys |-> 0]
    /\ last = NoLast
    /\ acceptCount = [p \in PairIds |-> 0]
    /\ loggedOut = {}
    /\ revokedAll = {}
    /\ rp = [q \in Procs |-> IdleProc]
    /\ upstream = <<>>
    /\ locals = StreamLocals
    /\ events = <<>>
    /\ accounts = [c \in Cookies |-> [is_shared |-> 0, quota |-> AccountQuota[c]]]
    /\ pool = [quota |-> [m \in Models |-> 0], max_quota |-> 0]
    /\ conv = NoConv
    /\ userRows = <<>>
    /\ keyRows = [i \in KeyIds |-> [exists |-> FALSE, user_id |-> 0, is_active |-> FALSE]]
    /\ repoLast = NoCall
    /\ db = NoSession
    /\ committed = 0
    /\ routeLast = NoRoute
    /\ feed = NoFeed
    /\ dumpFile = [exists |-> FALSE, records |-> <<>>, calls |-> 0]
    /\ touchRun = [task |-> [q \in Procs |-> [pc |-> "idle", key |-> "none"]],
                   writes |-> <<>>, started |-> 0]
    /\ gone = [user |-> [u \in Users |-> -1], key |-> [k \in Keys |-> -1]]
    /\ tokenRows = <<>>
    /\ oauthCb = NoCallbacks

\* ---------------------------------------------------------------- requests
CanSchedule(touch) == IF touch = "none" THEN TRUE ELSE touchPending[touch] < MaxPending
Schedule(touch) ==
    IF touch = "none" THEN touchPending ELSE [touchPending EXCEPT ![touch] = @ + 1]

\* POST /auth/login: the status of the response
LoginStatus(u, pwOk) ==
    IF ~users[u].exists \/ ~pwOk THEN 401
    ELSE IF ~users[u].is_active THEN 403
    ELSE IF ~redisUp THEN 500
    ELSE 200

Login(u, pwOk) ==
    /\ IF LoginStatus(u, pwOk) # 200
       THEN UNCHANGED <<minted, refreshReg, session>>
       ELSE /\ Len(minted) < MaxPairs
            /\ minted' = create_token_pair(u).minted
            /\ refreshReg' = create_token_pair(u).reg
            /\ session' = [session EXCEPT ![u] = clock + SESSION_TTL]
    /\ last' = NoLast
    /\ UNCHANGED extVars
    /\ UNCHANGED <<clock, redisUp, dbVars, blacklist, jwtCache, keyCache, throttle,
                   touchPending, histVars, rp>>

\* the WWW-Authenticate header of the response ("none": not set) of
\* POST /auth/login, of POST /auth/refresh and of the JWT-only strategy
login_headers(u, pwOk) == "none"
refresh_token_headers(err) ==
    IF err \in {"TokenExpiredError", "InvalidTokenError", "TokenBlacklistedError"}
    THEN "Bearer" ELSE "none"
get_current_user_headers(err) ==
    IF err \in {"InvalidTokenError", "TokenExpiredError", "TokenBlacklistedError"}
    THEN "Bearer" ELSE "none"

\* GET /auth/me and every other route that only resolves the user by JWT
MeStatus(tok) == AuthStatus(get_current_user(tok).err)

Me(tok) ==
    /\ jwtCache' = get_current_user(tok).cache
    /\ last' = NoLast
    /\ UNCHANGED extVars
    /\ UNCHANGED <<clock, redisUp, dbVars, minted, refreshReg, blacklist, session,
                   keyCache, throttle, touchPending, histVars, rp>>

\* POST /auth/refresh: the status of the response
RefreshStatus(err) ==
    CASE err = "ok" -> 200
      [] err = "AccountDisabledError" -> 403
      [] err \in {"TokenExpiredError", "InvalidTokenError", "TokenBlacklistedError",
                  "UserNotFoundError"} -> 401
      [] OTHER -> 500

Refresh(tok) ==
    LET r == refresh_tokens(tok) IN
    /\ r.err = "ok" => Len(minted) < MaxPairs
    /\ minted' = r.minted
    /\ refreshReg' = r.reg
    /\ acceptCount' = IF r.err = "ok"
                      THEN [acceptCount EXCEPT ![tok.id] = @ + 1]
                      ELSE acceptCount
    /\ last' = NoLast
    /\ UNCHANGED extVars
    /\ UNCHANGED <<clock, redisUp, dbVars, blacklist, session, jwtCache, keyCache,
                   throttle, touchPending, loggedOut, revokedAll, rp>>

\* POST /auth/logout: the access token is what follows the literal prefix "Bearer "
logout_access_token(tok, scheme) == IF scheme = "Bearer" THEN tok ELSE NoCred

Logout(tok, scheme, rt) ==
    LET a == get_current_user(tok)
        l == logout(a.user.id, logout_access_token(tok, scheme), rt)
    IN
    /\ SchemeAccepted(scheme)
    /\ jwtCache' = a.cache
    /\ IF a.err # "ok"
       THEN UNCHANGED <<session, blacklist, refreshReg, loggedOut>>
       ELSE /\ session' = l.session
            /\ blacklist' = l.blacklist
            /\ refreshReg' = l.reg
            /\ loggedOut' = loggedOut \cup {tok.id}
    /\ last' = NoLast
    /\ UNCHANGED extVars
    /\ UNCHANGED <<clock, redisUp, dbVars, minted, keyCache, throttle, touchPending,
                   acceptCount, revokedAll, rp>>

\* POST /auth/logout-all
LogoutAll(tok) ==
    LET a == get_current_user(tok)
        l == logout_all_devices(a.user.id)
    IN
    /\ jwtCache' = a.cache
    /\ IF a.err # "ok"
       THEN /\ last' = NoLast
            /\ UNCHANGED <<session, refreshReg, revokedAll>>
       ELSE /\ session' = l.session
            /\ refreshReg' = l.reg
            /\ revokedAll' = revokedAll \cup {j \in refreshReg : minted[j].sub = a.user.id}
            /\ last' = [op |-> "logout_all", uid |-> a.user.id]
    /\ UNCHANGED extVars
    /\ UNCHANGED <<clock, redisUp, dbVars, minted, blacklist, keyCache, throttle,
                   touchPending, acceptCount, loggedOut, rp>>

\* UserService.join_beta / leave_beta: the users table after the update
join_beta(uid) == [users EXCEPT ![uid].beta = 1]
leave_beta(uid) == [users EXCEPT ![uid].beta = 0]

\* POST /auth/join-beta: [status, message, users]
join_beta_route_always_joins(tok) ==
    LET a == get_current_user(tok) IN
    IF a.err # "ok" THEN [status |-> AuthStatus(a.err), message |-> "none", users |-> users]
    ELSE IF ~users[a.user.id].exists
    THEN [status |-> 404, message |-> "none", users |-> users]
    ELSE [status |-> 200, message |-> "joined", users |-> join_beta(a.user.id)]
join_beta_route(tok) ==
    LET a == get_current_user(tok) IN
    IF a.err # "ok" THEN [status |-> AuthStatus(a.err), message |-> "none", users |-> users]
    ELSE IF ~users[a.user.id].exists
    THEN [status |-> 404, message |-> "none", users |-> users]
    ELSE IF users[a.user.id].beta = 1
    THEN [status |-> 200, message |-> "already", users |-> users]
    ELSE [status |-> 200, message |-> "joined", users |-> join_beta(a.user.id)]

JoinBeta(tok) ==
    /\ jwtCache' = get_current_user(tok).cache
    /\ users' = join_beta_route(tok).users
    /\ last' = NoLast
    /\ UNCHANGED extVars
    /\ UNCHANGED <<clock, redisUp, apiKeys, lastUsed, minted, refreshReg, blacklist,
                   session, keyCache, throttle, touchPending, histVars, rp>>

\* UserService.leave_beta
LeaveBeta(u) ==
    /\ users[u].exists
    /\ users[u].beta = 1
    /\ users' = leave_beta(u)
    /\ last' = NoLast
    /\ UNCHANGED extVars
    /\ UNCHANGED <<clock, redisUp, apiKeys, lastUsed, minted, refreshReg, blacklist,
                   session, jwtCache, keyCache, throttle, touchPending, histVars, rp>>

\* UserService.update_user_info(is_active=...)
SetActive(u, b) ==
    /\ users[u].exists
    /\ users[u].is_active # b
    /\ users' = [users EXCEPT ![u].is_active = b]
    /\ last' = NoLast
    /\ UNCHANGED extVars
    /\ UNCHANGED <<clock, redisUp, apiKeys, lastUsed, minted, refreshReg, blacklist,
                   session, jwtCache, keyCache, throttle, touchPending, histVars, rp>>

\* APIKeyRepository.create(user_id, name, config_type): the row added
create(uid, config_type) ==
    [exists |-> TRUE, user_id |-> uid, is_active |-> TRUE, config_type |-> config_type]

CreateKey(k, uid, config_type) ==
    /\ ~apiKeys[k].exists
    /\ apiKeys' = [apiKeys EXCEPT ![k] = create(uid, config_type)]
    /\ last' = NoLast
    /\ UNCHANGED extVars
    /\ UNCHANGED <<clock, redisUp, users, lastUsed, minted, refreshReg, blacklist,
                   session, jwtCache, keyCache, throttle, touchPending, histVars, rp>>

\* APIKeyRepository.update_status(key_id, user_id, is_active)
update_status(k, uid, b) ==
    IF apiKeys[k].exists /\ apiKeys[k].user_id = uid
    THEN [apiKeys EXCEPT ![k].is_active = b]
    ELSE apiKeys

SetKeyStatus(k, uid, b) ==
    /\ apiKeys[k].is_active # b
    /\ apiKeys' = update_status(k, uid, b)
    /\ last' = NoLast
    /\ UNCHANGED extVars
    /\ UNCHANGED <<clock, redisUp, users, lastUsed, minted, refreshReg, blacklist,
                   session, jwtCache, keyCache, throttle, touchPending, histVars, rp>>

\* deps_beta.py 55-76, require_beta_user_flexible: the status of the dependency for a
\* Bearer credential; its user is resolved by Depends(get_current_user)
require_beta_user_flexible(cred) ==
    LET a == get_current_user(cred)
    IN IF a.err # "ok" THEN AuthStatus(a.err)
       ELSE IF a.user.beta # 1 THEN 403 ELSE 200

\* any route of the Kiro router: require_beta_user, then the KiroService call;
\* [status, upstream]
kiro_route(tok) ==
    LET a == get_current_user(tok)
        st == IF a.err # "ok" THEN AuthStatus(a.err) ELSE require_beta_user(a.user)
    IN [status |-> st, upstream |-> IF st = 200 THEN "kiro" ELSE "none"]

KiroRoute(tok) ==
    /\ jwtCache' = get_current_user(tok).cache
    /\ last' = NoLast
    /\ UNCHANGED extVars
    /\ UNCHANGED <<clock, redisUp, dbVars, minted, refreshReg, blacklist, session,
                   keyCache, throttle, touchPending, histVars, rp>>

\* POST /v1/messages: [status, config_type, upstream]
messages_route(cred, x_api_key, api_type) ==
    LET a == get_user_flexible_with_x_api_key(cred, x_api_key)
        m == create_message(a.user, a.cfg, api_type)
    IN IF a.status # 200
       THEN [status |-> a.status, config_type |-> "none", upstream |-> "none"]
       ELSE [status |-> m.status,
             config_type |-> create_message_config_type(a.cfg, api_type),
             upstream |-> m.upstream]

Messages(cred, x_api_key, api_type) ==
    LET a == get_user_flexible_with_x_api_key(cred, x_api_key) IN
    /\ CanSchedule(a.touch)
    /\ jwtCache' = a.jwt
    /\ keyCache' = a.keyc
    /\ touchPending' = Schedule(a.touch)
    /\ last' = IF ~redisUp /\ a.touch # "none"
               THEN [op |-> "key_auth_cache_down", uid |-> a.user.id]
               ELSE NoLast
    /\ UNCHANGED extVars
    /\ UNCHANGED <<clock, redisUp, dbVars, minted, refreshReg, blacklist, session,
                   throttle, histVars, rp>>

\* a route resolved by get_user_from_api_key (for example /plugin-api/chat/completions)
ApiKeyRoute(key) ==
    LET a == get_user_from_api_key(key)
        touch == IF a.touch THEN key ELSE "none"
    IN
    /\ CanSchedule(touch)
    /\ keyCache' = a.cache
    /\ touchPending' = Schedule(touch)
    /\ last' = IF ~redisUp /\ a.touch
               THEN [op |-> "key_auth_cache_down", uid |-> a.user.id]
               ELSE NoLast
    /\ UNCHANGED extVars
    /\ UNCHANGED <<clock, redisUp, dbVars, minted, refreshReg, blacklist, session,
                   jwtCache, throttle, histVars, rp>>

\* update_api_key_last_used_background: [throttle, lastUsed] after the task
update_api_key_last_used_background(key) ==
    IF ~redisUp \/ Live(throttle[key])
    THEN [throttle |-> throttle, lastUsed |-> lastUsed]
    ELSE [throttle |-> [throttle EXCEPT ![key] = clock + LAST_USED_THROTTLE_TTL],
          lastUsed |-> IF apiKeys[key].exists
                       THEN [lastUsed EXCEPT ![key] = clock]
                       ELSE lastUsed]

RunTouch(k) ==
    /\ touchPending[k] > 0
    /\ touchPending' = [touchPending EXCEPT ![k] = @ - 1]
    /\ throttle' = update_api_key_last_used_background(k).throttle
    /\ lastUsed' = update_api_key_last_used_background(k).lastUsed
    /\ last' = NoLast
    /\ UNCHANGED extVars
    /\ UNCHANGED <<clock, redisUp, users, apiKeys, minted, refreshReg, blacklist,
                   session, jwtCache, keyCache, histVars, rp>>

\* ------------------------------------------------------------- environment
Expire(exp, now) == IF exp <= now THEN 0 ELSE exp

\* time passes; keys whose TTL has run out leave the cache
Tick ==
    /\ clock + TickSeconds <= MaxClock
    /\ clock' = clock + TickSeconds
    /\ blacklist' = [p \in PairIds |-> Expire(blacklist[p], clock')]
    /\ session' = [u \in Users |-> Expire(session[u], clock')]
    /\ throttle' = [k \in Keys |-> Expire(throttle[k], clock')]
    /\ jwtCache' = [u \in Users |->
                      IF jwtCache[u].exp <= clock' THEN NoJwtEntry ELSE jwtCache[u]]
    /\ keyCache' = [k \in Keys |->
                      IF keyCache[k].exp <= clock' THEN NoKeyEntry ELSE keyCache[k]]
    /\ refreshReg' = {j \in refreshReg : RefreshExp(j) > clock'}
    /\ last' = NoLast
    /\ UNCHANGED extVars
    /\ UNCHANGED <<redisUp, dbVars, minted, touchPending, histVars, rp>>

RedisFail ==
    /\ redisUp
    /\ redisUp' = FALSE
    /\ last' = NoLast
    /\ UNCHANGED extVars
    /\ UNCHANGED <<clock, dbVars, minted, refreshReg, blacklist, session, jwtCache,
                   keyCache, throttle, touchPending, histVars, rp>>

RedisRecover ==
    /\ ~redisUp
    /\ redisUp' = TRUE
    /\ last' = NoLast
    /\ UNCHANGED extVars
    /\ UNCHANGED <<clock, dbVars, minted, refreshReg, blacklist, session, jwtCache,
                   keyCache, throttle, touchPending, histVars, rp>>

\* ------------------------------------- refresh_tokens, one await at a time
\* Calls of refresh_tokens running concurrently in the event loop: a call gives up
\* control at each await (the registry lookup, the user query, the store of the new
\* jti, the revocation of the old one) and another call may run in between.
Finished(q, res) == [rp EXCEPT ![q].pc = "done", ![q].res = res]

\* verify_refresh_token and the registry lookup
refresh_tokens_lookup(tok) ==
    LET payload == verify_refresh_token(tok) IN
    IF payload # "payload" THEN payload
    ELSE IF ~redisUp THEN "RedisError"
    ELSE IF ~is_refresh_token_valid(tok.id) THEN "TokenBlacklistedError"
    ELSE "pass"

RefreshLookup(q, tok) ==
    /\ rp[q].pc = "idle"
    /\ rp' = IF refresh_tokens_lookup(tok) = "pass"
             THEN [rp EXCEPT ![q].pc = "lookedup", ![q].tok = tok]
             ELSE [Finished(q, refresh_tokens_except(refresh_tokens_lookup(tok)))
                      EXCEPT ![q].tok = tok]
    /\ last' = NoLast
    /\ UNCHANGED extVars
    /\ UNCHANGED <<clock, redisUp, dbVars, minted, refreshReg, blacklist, session,
                   jwtCache, keyCache, throttle, touchPending, histVars>>

\* the user query and the account checks
refresh_tokens_user(tok) ==
    IF ~users[minted[tok.id].sub].exists THEN "UserNotFoundError"
    ELSE IF ~users[minted[tok.id].sub].is_active THEN "AccountDisabledError"
    ELSE "pass"

RefreshUser(q) ==
    /\ rp[q].pc = "lookedup"
    /\ rp' = IF refresh_tokens_user(rp[q].tok) = "pass"
             THEN [rp EXCEPT ![q].pc = "loaded"]
             ELSE Finished(q, refresh_tokens_user(rp[q].tok))
    /\ last' = NoLast
    /\ UNCHANGED extVars
    /\ UNCHANGED <<clock, redisUp, dbVars, minted, refreshReg, blacklist, session,
                   jwtCache, keyCache, throttle, touchPending, histVars>>

\* create_token_pair: the new pair is minted and its refresh jti stored
RefreshMint(q) ==
    /\ rp[q].pc = "loaded"
    /\ IF ~redisUp
       THEN /\ rp' = Finished(q, "InvalidTokenError")
            /\ UNCHANGED <<minted, refreshReg>>
       ELSE /\ Len(minted) < MaxPairs
            /\ minted' = create_token_pair(minted[rp[q].tok.id].sub).minted
            /\ refreshReg' = create_token_pair(minted[rp[q].tok.id].sub).reg
            /\ rp' = [rp EXCEPT ![q].pc = "minted",
                                ![q].newp = create_token_pair(minted[rp[q].tok.id].sub).pair]
    /\ last' = NoLast
    /\ UNCHANGED extVars
    /\ UNCHANGED <<clock, redisUp, dbVars, blacklist, session, jwtCache, keyCache,
                   throttle, touchPending, histVars>>

\* the old jti is revoked and the new pair returned
RefreshRevoke(q) ==
    /\ rp[q].pc = "minted"
    /\ IF ~redisUp
       THEN /\ rp' = Finished(q, "InvalidTokenError")
            /\ UNCHANGED <<refreshReg, acceptCount>>
       ELSE /\ refreshReg' = refresh_tokens_rotate(refreshReg, rp[q].tok.id, rp[q].newp)
            /\ rp' = Finished(q, "ok")
            /\ acceptCount' = [acceptCount EXCEPT ![rp[q].tok.id] = @ + 1]
    /\ last' = NoLast
    /\ UNCHANGED extVars
    /\ UNCHANGED <<clock, redisUp, dbVars, minted, blacklist, session, jwtCache,
                   keyCache, throttle, touchPending, loggedOut, revokedAll>>

\* ------------------------------------------------------------------- Spec
Schemes == {"Bearer", "bearer"}
ApiTypes == {"none", "kiro", "antigravity", "other"}
JwtCreds == AccessToks \cup {Garbage}
BearerCreds == JwtCreds \cup {NoCred} \cup {KeyCred(k) : k \in Keys}

\* the session and token life cycle; a logout request carries in its body the refresh
\* token of the same login, or none
Next ==
    \/ \E u \in Users, pwOk \in BOOLEAN : Login(u, pwOk)
    \/ \E tok \in JwtCreds : Me(tok)
    \/ \E tok \in RefreshToks \cup {Garbage} : Refresh(tok)
    \/ \E tok \in AccessToks, scheme \in Schemes :
          \E rt \in {RefreshTok(tok.id), NoCred} : Logout(tok, scheme, rt)
    \/ \E tok \in JwtCreds : LogoutAll(tok)
    \/ Tick
    \/ RedisFail
    \/ RedisRecover

Spec == Init /\ [][Next]_vars

\* the beta gate and the API-key strategies
NextGate ==
    \/ \E u \in Users : Login(u, TRUE)
    \/ \E tok \in JwtCreds : JoinBeta(tok)
    \/ \E u \in Users : LeaveBeta(u)
    \/ \E k \in Keys, u \in Users, cfg \in {"kiro", "antigravity"} : CreateKey(k, u, cfg)
    \/ \E k \in Keys, u \in Users, b \in BOOLEAN : SetKeyStatus(k, u, b)
    \/ \E tok \in JwtCreds : KiroRoute(tok)
    \/ \E cred \in BearerCreds, x \in Keys \cup {"none"}, t \in ApiTypes :
          Messages(cred, x, t)
    \/ \E k \in Keys \cup {UnknownKey} : ApiKeyRoute(k)
    \/ \E k \in Keys : RunTouch(k)
    \/ Tick
    \/ RedisFail
    \/ RedisRecover

SpecGate == Init /\ [][NextGate]_vars

\* concurrent token refreshes
NextConc ==
    \/ \E u \in Users : Login(u, TRUE)
    \/ \E q \in Procs, tok \in RefreshToks \cup {Garbage} : RefreshLookup(q, tok)
    \/ \E q \in Procs : RefreshUser(q)
    \/ \E q \in Procs : RefreshMint(q)
    \/ \E q \in Procs : RefreshRevoke(q)
    \/ \E u \in Users, b \in BOOLEAN : SetActive(u, b)
    \/ Tick
    \/ RedisFail
    \/ RedisRecover

SpecConc == Init /\ [][NextConc]_vars

\* -------------------------------------------------------- stream translator
NoDelta ==
    [choices |-> TRUE, usage |-> "absent", finish_reason |-> "none",
     reasoning |-> "", content |-> "", has_tool_calls |-> FALSE, tool_calls |-> <<>>]
ToolFragments ==
    { [id |-> "call_a", index |-> 0, name |-> "f", arguments |-> "{k:1"],
      [id |-> "", index |-> 0, name |-> "none", arguments |-> "}"],
      [id |-> "", index |-> 0, name |-> "", arguments |-> "none"],
      [id |-> "call_b", index |-> 1, name |-> "g", arguments |-> "none"] }
Lines ==
    { [NoDelta EXCEPT !.choices = FALSE],
      [NoDelta EXCEPT !.reasoning = "r"],
      [NoDelta EXCEPT !.content = "c"],
      [NoDelta EXCEPT !.reasoning = "r", !.content = "c"],
      [NoDelta EXCEPT !.usage = "object", !.finish_reason = "stop"],
      [NoDelta EXCEPT !.usage = "null", !.content = "c"] }
    \cup { [NoDelta EXCEPT !.finish_reason = f] : f \in {"length", "eos"} }
    \cup { [NoDelta EXCEPT !.has_tool_calls = TRUE, !.tool_calls = <<tc>>] :
              tc \in ToolFragments }

\* the mutant of generate_except: the exception ends the response without an event
generate_except_silent(evs) == evs

\* routes/anthropic.py 219-229, create_message.generate: an exception of the translator
\* or of the upstream it iterates is answered with one error event, and the response ends
generate_except(evs) == Append(evs, [type |-> "error"])

\* lines 475-513: message_start is yielded before the upstream is iterated
StreamStart ==
    /\ locals.pc = "init"
    /\ locals' = [locals EXCEPT !.pc = "loop"]
    /\ events' = Append(events, [type |-> "message_start"])
    /\ UNCHANGED <<authVars, lateVars, reqVars, feed, quotaVars, repoVars, upstream>>

\* lines 515-680: the upstream yields one more data line
StreamLine(line) ==
    /\ locals.pc = "loop"
    /\ Len(upstream) < MaxLines
    /\ LET r == process_line(locals, line)
       IN /\ locals' = r.st
          /\ events' = IF r.st.pc = "failed" THEN generate_except(events \o r.out)
                       ELSE events \o r.out
    /\ upstream' = Append(upstream, line)
    /\ UNCHANGED <<authVars, lateVars, reqVars, feed, quotaVars, repoVars>>

\* lines 682-792: the upstream ends
StreamEnd ==
    /\ locals.pc = "loop"
    /\ locals' = [locals EXCEPT !.pc = "done"]
    /\ events' = events \o stream_end(locals)
    /\ UNCHANGED <<authVars, lateVars, reqVars, feed, quotaVars, repoVars, upstream>>

\* line 515: the upstream raises, before its first chunk or later; the exception leaves
\* the translator and is caught in create_message.generate
StreamRaise ==
    /\ locals.pc = "loop"
    /\ locals' = [locals EXCEPT !.pc = "raised"]
    /\ events' = generate_except(events)
    /\ UNCHANGED <<authVars, lateVars, reqVars, feed, quotaVars, repoVars, upstream>>

NextStream ==
    \/ StreamStart
    \/ \E line \in Lines : StreamLine(line)
    \/ StreamEnd
    \/ StreamRaise
SpecStream == Init /\ [][NextStream]_vars

\* --------------------------------------------------------------- quota pool
\* PUT /accounts/{cookie_id}/type
UpdateAccountType(cookie_id, is_shared) ==
    /\ LET r == update_account_type(accounts, pool, cookie_id, is_shared)
       IN /\ accounts' = r.accounts
          /\ pool' = r.pool
    /\ conv' = IF accounts[cookie_id].is_shared = is_shared THEN NoConv
               ELSE IF is_shared = 1
               THEN [cookie_id |-> cookie_id, is_shared |-> 1, before |-> pool.quota,
                     max_before |-> pool.max_quota]
               ELSE IF conv.cookie_id = cookie_id /\ conv.is_shared = 1
               THEN [conv EXCEPT !.is_shared = 0]
               ELSE NoConv
    /\ UNCHANGED <<authVars, lateVars, reqVars, feed, streamVars, repoVars>>

\* a request served from the pool uses one unit of a model's quota
UsePoolQuota(m) ==
    /\ pool.quota[m] > 0
    /\ pool' = [pool EXCEPT !.quota[m] = @ - 1]
    /\ conv' = NoConv
    /\ UNCHANGED <<authVars, lateVars, reqVars, feed, streamVars, repoVars, accounts>>

NextQuota ==
    \/ \E c \in Cookies, s \in {0, 1} : UpdateAccountType(c, s)
    \/ \E m \in Models : UsePoolQuota(m)
SpecQuota == Init /\ [][NextQuota]_vars

\* ------------------------------------------------------------- repositories
\* UserService.create_user for a password registration
CreateUser(username) ==
    /\ LET r == UserRepository_create(userRows, username, "none", "none", 0)
       IN /\ userRows' = r.rows
          /\ repoLast' = [NoCall EXCEPT !.op = "create_user", !.ok = (r.err = "ok")]
    /\ UNCHANGED <<authVars, lateVars, reqVars, feed, streamVars, quotaVars, keyRows>>

UpdateUser(user_id, field, value) ==
    /\ LET r == UserRepository_update(userRows, user_id, field, value)
       IN /\ userRows' = r.rows
          /\ repoLast' = [NoCall EXCEPT !.op = "update_user", !.ok = (r.err = "ok"),
                                        !.user_id = user_id]
    /\ UNCHANGED <<authVars, lateVars, reqVars, feed, streamVars, quotaVars, keyRows>>

CreateUserFromOAuth(oauth_data) ==
    /\ LET r == create_user_from_oauth(userRows, oauth_data)
       IN /\ userRows' = r.rows
          /\ repoLast' = [op |-> "create_user_from_oauth", ok |-> (r.err = "ok"),
                          oauth_id |-> oauth_data.oauth_id,
                          avatar_url |-> oauth_data.avatar_url,
                          trust_level |-> oauth_data.trust_level,
                          key_id |-> 0, user_id |-> 0]
    /\ UNCHANGED <<authVars, lateVars, reqVars, feed, streamVars, quotaVars, keyRows>>

\* APIKeyRepository.create
CreateApiKey(key_id, user_id) ==
    /\ ~keyRows[key_id].exists
    /\ keyRows' = [keyRows EXCEPT ![key_id] =
                      [exists |-> TRUE, user_id |-> user_id, is_active |-> TRUE]]
    /\ repoLast' = [NoCall EXCEPT !.op = "create"]
    /\ UNCHANGED <<authVars, lateVars, reqVars, feed, streamVars, quotaVars, userRows>>

DeleteApiKey(key_id, user_id) ==
    /\ LET r == APIKeyRepository_delete(keyRows, key_id, user_id)
       IN /\ keyRows' = r.rows
          /\ repoLast' = [NoCall EXCEPT !.op = "delete", !.ok = r.ok, !.key_id = key_id,
                                        !.user_id = user_id]
    /\ UNCHANGED <<authVars, lateVars, reqVars, feed, streamVars, quotaVars, userRows>>

UpdateApiKeyStatus(key_id, user_id, is_active) ==
    /\ LET r == APIKeyRepository_update_status(keyRows, key_id, user_id, is_active)
       IN /\ keyRows' = r.rows
          /\ repoLast' = [NoCall EXCEPT !.op = "update_status", !.ok = r.ok,
                                        !.key_id = key_id, !.user_id = user_id]
    /\ UNCHANGED <<authVars, lateVars, reqVars, feed, streamVars, quotaVars, userRows>>

NextRepo ==
    \/ \E username \in {"alice", "bob"} : CreateUser(username)
    \/ \E oauth_data \in [username : {"alice", "bob"}, oauth_id : {"o1", "o2"},
                          avatar_url : {"a1", "a2"}, trust_level : {0, 1}] :
          CreateUserFromOAuth(oauth_data)
    \/ \E key_id \in KeyIds, user_id \in {1, 2} : CreateApiKey(key_id, user_id)
    \/ \E key_id \in KeyIds \cup {3}, user_id \in {1, 2} : DeleteApiKey(key_id, user_id)
    \/ \E key_id \in KeyIds \cup {3}, user_id \in {1, 2}, is_active \in BOOLEAN :
          UpdateApiKeyStatus(key_id, user_id, is_active)
SpecRepo == Init /\ [][NextRepo]_vars

\* the users table under create, the OAuth upsert and update
SpecUsers ==
    Init /\ [][\/ \E username \in {"alice", "bob"} : CreateUser(username)
               \/ \E oauth_data \in [username : {"alice", "bob"}, oauth_id : {"o1", "o2"},
                                     avatar_url : {"a1", "a2"}, trust_level : {0, 1}] :
                     CreateUserFromOAuth(oauth_data)
               \/ \E user_id \in {1, 2, 3}, value \in {"alice", "bob"} :
                     UpdateUser(user_id, "username", value)
               \/ \E user_id \in {1, 2, 3}, value \in {"o1", "o2", "none"} :
                     UpdateUser(user_id, "oauth_id", value)]_vars

\* ----------------------------------------------------------- request scope
\* db/session.py 112-115: a request arrives, session_maker() opens a session and get_db
\* yields it
GetDbEnter ==
    /\ db.pc \in {"none", "exited"}
    /\ committed < MaxCommitted
    /\ db' = [NoSession EXCEPT !.pc = "yielded", !.base = committed, !.tx = "open"]
    /\ routeLast' = NoRoute
    /\ UNCHANGED <<authVars, lateVars, feed, streamVars, quotaVars, repoVars, committed>>

\* the route handler runs: it flushes `writes` writes into the session (repositories
\* flush, never commit), then its service call succeeds (exc = NoExc), fails with exc, or
\* the request is cancelled while it awaits (CancelledError, a BaseException)
RouteCall(route, stream, exc, writes) ==
    /\ db.pc = "yielded"
    /\ LET r == CASE exc.kind = "CancelledError" -> [status |-> 0, raised |-> FALSE]
                  [] OTHER ->
                     CASE route = "get_accounts" -> get_accounts(exc)
                       [] route = "chat_completions" -> chat_completions(stream, exc)
                       [] route = "list_accounts" -> list_accounts(exc)
       IN /\ routeLast' = [route |-> route, exc |-> exc, stream |-> stream, body |-> "none",
                           status |-> r.status, raised |-> r.raised]
          /\ db' = [db EXCEPT !.pc = "handled", !.pending = writes,
                              !.exc = IF exc.kind = "CancelledError" THEN "BaseException"
                                      ELSE IF r.raised THEN "Exception" ELSE "none"]
    /\ UNCHANGED <<authVars, lateVars, feed, streamVars, quotaVars, repoVars, committed>>

\* db/session.py 113-121: FastAPI leaves the get_db dependency
GetDbExit(commit_ok, rollback_ok) ==
    /\ db.pc = "handled"
    /\ db' = get_db_exit(db, commit_ok, rollback_ok)
    /\ committed' = IF db'.tx = "committed" THEN db.base + db.pending ELSE committed
    /\ UNCHANGED <<authVars, lateVars, feed, streamVars, quotaVars, repoVars, routeLast>>

\* POST /v1/messages/count_tokens: the route has no dependency, it runs outside get_db
CountTokens(body) ==
    /\ routeLast' = [NoRoute EXCEPT !.route = "count_tokens", !.body = body,
                                    !.status = count_tokens(body)]
    /\ UNCHANGED <<authVars, lateVars, feed, streamVars, quotaVars, repoVars, db, committed>>

NextRequest ==
    \/ GetDbEnter
    \/ \E body \in {"valid", "not_json", "no_model", "no_messages", "messages_not_list"} :
          CountTokens(body)
    \/ \E route \in {"get_accounts", "chat_completions", "list_accounts"},
          stream \in BOOLEAN,
          exc \in {NoExc, [kind |-> "ValueError", status |-> 0],
                   [kind |-> "CancelledError", status |-> 0]}
                  \cup [kind : {"HTTPStatusError", "UpstreamAPIError"},
                        status : {404, 429, 503}],
          writes \in 0..MaxWrites :
            /\ stream => route = "chat_completions"
            /\ exc.kind = "HTTPStatusError" => route # "list_accounts"
            /\ exc.kind = "UpstreamAPIError" => route = "list_accounts"
            /\ RouteCall(route, stream, exc, writes)
    \/ \E commit_ok \in BOOLEAN, rollback_ok \in BOOLEAN : GetDbExit(commit_ok, rollback_ok)
SpecRequest == Init /\ [][NextRequest]_vars

\* ------------------------------------------- stream translator, byte level
\* the upstream is about to send text, a valid UTF-8 text of at most MaxBytes bytes
FeedStart(text) ==
    /\ feed.pc = "init"
    /\ utf8_decode(text).ok
    /\ feed' = [NoFeed EXCEPT !.text = text, !.pc = "loop"]
    /\ UNCHANGED <<authVars, lateVars, streamVars, quotaVars, repoVars, reqVars>>

\* lines 515-530: the upstream yields the next n bytes as one chunk; a chunk that does
\* not decode raises out of the generator
FeedChunk(n) ==
    /\ feed.pc = "loop"
    /\ feed.pos + n <= Len(feed.text)
    /\ LET d == utf8_decode(SubSeq(feed.text, feed.pos + 1, feed.pos + n))
           r == split_lines(feed.buffer \o d.chars, feed.lines)
       IN feed' = IF d.ok
                  THEN [feed EXCEPT !.pos = @ + n, !.buffer = r.buffer, !.lines = r.lines]
                  ELSE [feed EXCEPT !.pos = @ + n, !.pc = "raised"]
    /\ UNCHANGED <<authVars, lateVars, streamVars, quotaVars, repoVars, reqVars>>

NextChunks ==
    \/ \E len \in 1..MaxBytes : \E text \in [1..len -> {"a", "n", "L", "T"}] : FeedStart(text)
    \/ \E n \in 1..MaxBytes : FeedChunk(n)
SpecChunks == Init /\ [][NextChunks]_vars

\* ------------------------------------------------------------- error dumps
\* lines 72-73 with the slice taken from the front of the list
dump_error_to_file_keeps_oldest(existing_errors, error_record) ==
    LET appended == Append(existing_errors, error_record)
    IN IF Len(appended) > MAX_ERROR_DUMPS
       THEN SubSeq(appended, 1, MAX_ERROR_DUMPS)
       ELSE appended

\* anthropic.py lines 61-77: the list the call writes back over the file, from the list
\* it read (empty for an absent file) and the record it built
dump_error_to_file(existing_errors, error_record) ==
    LET appended == Append(existing_errors, error_record)
    IN IF Len(appended) > MAX_ERROR_DUMPS
       THEN SubSeq(appended, Len(appended) - MAX_ERROR_DUMPS + 1, Len(appended))
       ELSE appended

\* a failing request reaches one of the two call sites of create_message (lines 289,
\* 318). dump_error_to_file is a plain function without an await: on the event loop
\* the calls of concurrent requests run one after the other, each as one step. The
\* record is named by its place in the order of the calls, which is the order of the
\* timestamps.
DumpError ==
    /\ dumpFile.calls < MaxDumps
    /\ LET existing_errors == IF dumpFile.exists THEN dumpFile.records ELSE <<>>
           error_record == dumpFile.calls + 1
       IN dumpFile' = [exists |-> TRUE,
                       records |-> dump_error_to_file(existing_errors, error_record),
                       calls |-> error_record]
    /\ UNCHANGED <<authVars, baseExtVars, touchRun, gone, tokenRows, oauthCb>>

SpecDump == Init /\ [][DumpError]_vars

\* ------------------------------------------- last-used task, step by step
\* deps.py lines 42-48 (deps_flexible.py lines 32-38): a task scheduled by a request
\* that api key k authenticated starts in process q and awaits redis.exists. A raise
\* of the cache ends the task in its except clause.
TouchCheck(q, k) ==
    /\ touchRun.task[q].pc = "idle"
    /\ touchRun.started < MaxTouches
    /\ apiKeys[k].exists
    /\ touchRun' = [touchRun EXCEPT
                      !.started = @ + 1,
                      !.task[q] = IF redisUp /\ ~Live(throttle[k])
                                  THEN [pc |-> "checked", key |-> k]
                                  ELSE @]
    /\ UNCHANGED <<authVars, baseExtVars, dumpFile, gone, tokenRows, oauthCb>>

\* lines 50-51: await redis.set(throttle_key, "1", expire=60)
TouchSet(q) ==
    /\ touchRun.task[q].pc = "checked"
    /\ throttle' = IF redisUp
                   THEN [throttle EXCEPT ![touchRun.task[q].key] =
                                            clock + LAST_USED_THROTTLE_TTL]
                   ELSE throttle
    /\ touchRun' = [touchRun EXCEPT
                      !.task[q] = IF redisUp THEN [@ EXCEPT !.pc = "flagged"]
                                  ELSE [pc |-> "idle", key |-> "none"]]
    /\ last' = NoLast
    /\ UNCHANGED <<baseExtVars, dumpFile, gone, tokenRows, oauthCb>>
    /\ UNCHANGED <<clock, redisUp, users, apiKeys, lastUsed, minted, refreshReg, blacklist,
                   session, jwtCache, keyCache, touchPending, histVars, rp>>

\* lines 53-60: update_last_used and commit in a session of the task's own
TouchWrite(q) ==
    /\ touchRun.task[q].pc = "flagged"
    /\ lastUsed' = [lastUsed EXCEPT ![touchRun.task[q].key] = clock]
    /\ touchRun' = [touchRun EXCEPT
                      !.task[q] = [pc |-> "idle", key |-> "none"],
                      !.writes = Append(@, [key |-> touchRun.task[q].key, at |-> clock])]
    /\ last' = NoLast
    /\ UNCHANGED <<baseExtVars, dumpFile, gone, tokenRows, oauthCb>>
    /\ UNCHANGED <<clock, redisUp, users, apiKeys, minted, refreshReg, blacklist,
                   session, jwtCache, keyCache, throttle, touchPending, histVars, rp>>

NextTouch ==
    \/ \E k \in Keys, u \in Users : CreateKey(k, u, "kiro")
    \/ \E q \in Procs, k \in Keys : TouchCheck(q, k)
    \/ \E q \in Procs : TouchSet(q)
    \/ \E q \in Procs : TouchWrite(q)
    \/ Tick
    \/ RedisFail
    \/ RedisRecover
SpecTouch == Init /\ [][NextTouch]_vars

\* ------------------------------------------------- staleness of the caches
UserValid(u) == users[u].exists /\ users[u].is_active
KeyValid(k) == apiKeys[k].exists /\ apiKeys[k].is_active /\ UserValid(apiKeys[k].user_id)

\* user_repository.py lines 137-176 and 196-220: an administrator disables, enables
\* or deletes the row of user u; no caller touches the jwt_user or api_key_auth entries
UserChange(u, how) ==
    /\ users[u].exists
    /\ how = "disable" => users[u].is_active
    /\ how = "enable" => ~users[u].is_active
    /\ users' = [users EXCEPT ![u] =
                   CASE how = "disable" -> [@ EXCEPT !.is_active = FALSE]
                     [] how = "enable" -> [@ EXCEPT !.is_active = TRUE]
                     [] how = "delete" -> [exists |-> FALSE, is_active |-> FALSE, beta |-> 0]]
    /\ gone' = [gone EXCEPT
                  !.user[u] = IF UserValid(u) /\ how # "enable" THEN clock ELSE @,
                  !.key = [k \in Keys |->
                             IF KeyValid(k) /\ apiKeys[k].user_id = u /\ how # "enable"
                             THEN clock ELSE @[k]]]
    /\ last' = NoLast
    /\ UNCHANGED <<baseExtVars, dumpFile, touchRun, tokenRows, oauthCb>>
    /\ UNCHANGED <<clock, redisUp, apiKeys, lastUsed, minted, refreshReg, blacklist,
                   session, jwtCache, keyCache, throttle, touchPending, histVars, rp>>

\* api_key_repository.py lines 101-137: the owner disables, enables or deletes key k
KeyChange(k, how) ==
    /\ apiKeys[k].exists
    /\ how = "disable" => apiKeys[k].is_active
    /\ how = "enable" => ~apiKeys[k].is_active
    /\ apiKeys' = CASE how = "disable" -> update_status(k, apiKeys[k].user_id, FALSE)
                    [] how = "enable" -> update_status(k, apiKeys[k].user_id, TRUE)
                    [] how = "delete" -> [apiKeys EXCEPT ![k] = NoKeyRow]
    /\ gone' = [gone EXCEPT
                  !.key[k] = IF KeyValid(k) /\ how # "enable" THEN clock ELSE @]
    /\ last' = NoLast
    /\ UNCHANGED <<baseExtVars, dumpFile, touchRun, tokenRows, oauthCb>>
    /\ UNCHANGED <<clock, redisUp, users, lastUsed, minted, refreshReg, blacklist,
                   session, jwtCache, keyCache, throttle, touchPending, histVars, rp>>

NextStale ==
    \/ \E u \in Users : Login(u, TRUE)
    \/ \E tok \in JwtCreds : Me(tok)
    \/ \E k \in Keys, u \in Users : CreateKey(k, u, "kiro")
    \/ \E k \in Keys \cup {UnknownKey} : ApiKeyRoute(k)
    \/ \E k \in Keys : Messages(KeyCred(k), "none", "none")
    \/ \E k \in Keys : RunTouch(k)
    \/ \E u \in Users, how \in {"disable", "enable", "delete"} : UserChange(u, how)
    \/ \E k \in Keys, how \in {"disable", "enable", "delete"} : KeyChange(k, how)
    \/ Tick
    \/ RedisFail
    \/ RedisRecover
SpecStale == Init /\ [][NextStale]_vars

\* ------------------------------------------------- OAuthTokenRepository
\* oauth_token_repository.py lines 61-94: create adds a row and flushes; it does not
\* look for a row of the user. A token row is [user_id, access_token].
OAuthTokenRepository_create(rows, user_id, access_token) ==
    [err |-> "ok", rows |-> Append(rows, [user_id |-> user_id, access_token |-> access_token])]

\* lines 96-142: get_by_user_id is scalar_one_or_none, which raises when the select
\* returns more than one row
OAuthTokenRepository_update(rows, user_id, access_token) ==
    LET existing == {i \in 1..Len(rows) : rows[i].user_id = user_id}
    IN IF Cardinality(existing) > 1 THEN [err |-> "MultipleResultsFound", rows |-> rows]
       ELSE IF existing # {}
       THEN [err |-> "ok",
             rows |-> [i \in 1..Len(rows) |->
                         IF i \in existing THEN [rows[i] EXCEPT !.access_token = access_token]
                         ELSE rows[i]]]
       ELSE OAuthTokenRepository_create(rows, user_id, access_token)

\* lines 144-164
OAuthTokenRepository_delete_by_user_id(rows, user_id) ==
    LET existing == {i \in 1..Len(rows) : rows[i].user_id = user_id}
    IN IF Cardinality(existing) > 1 THEN [err |-> "MultipleResultsFound", rows |-> rows]
       ELSE IF existing # {}
       THEN LET i == CHOOSE j \in existing : TRUE
            IN [err |-> "ok", rows |-> SubSeq(rows, 1, i - 1) \o SubSeq(rows, i + 1, Len(rows))]
       ELSE [err |-> "ok", rows |-> rows]

\* one call of the repository, flushed and committed by its caller
OAuthTokenCall(op, user_id, access_token) ==
    /\ LET r == CASE op = "create" -> OAuthTokenRepository_create(tokenRows, user_id, access_token)
                  [] op = "update" -> OAuthTokenRepository_update(tokenRows, user_id, access_token)
                  [] op = "delete_by_user_id" ->
                        OAuthTokenRepository_delete_by_user_id(tokenRows, user_id)
       IN /\ Len(r.rows) <= MaxTokenRows
          /\ tokenRows' = r.rows
    /\ UNCHANGED <<authVars, baseExtVars, dumpFile, touchRun, gone, oauthCb>>

SpecTokens ==
    Init /\ [][\E op \in {"create", "update", "delete_by_user_id"}, user_id \in {1, 2},
                  access_token \in {"t1", "t2"} : OAuthTokenCall(op, user_id, access_token)]_vars

\* ------------------------------------------------ OAuth callbacks, step by step
\* auth.py lines 249-254 (GitHub: 396-401): the callback of process q has the user
\* from create_user_from_oauth and awaits plugin_api_service.repo.exists(user.id),
\* which is get_by_user_id(...) is not None (plugin_api_key_repository.py lines
\* 167-178). With a key the callback goes on to the token pair; without one it has
\* yet to bind. pc is 0 when no callback runs in q, else the user it has yet to bind.
CallbackExists(q, user_id) ==
    /\ oauthCb.pc[q] = 0
    /\ oauthCb.started < MaxCallbacks
    /\ LET has_key == \E i \in 1..Len(oauthCb.rows) : oauthCb.rows[i] = user_id
       IN oauthCb' = [oauthCb EXCEPT !.started = @ + 1,
                                    !.pc[q] = IF has_key THEN 0 ELSE user_id]
    /\ UNCHANGED <<authVars, baseExtVars, dumpFile, touchRun, gone, tokenRows>>

\* lines 255-260 (402-407): auto_create_and_bind_plugin_user provisions an account at
\* the upstream and has PluginAPIKeyRepository.create (lines 58-88) add the row
CallbackBind(q) ==
    /\ oauthCb.pc[q] # 0
    /\ oauthCb' = [oauthCb EXCEPT !.pc[q] = 0,
                                 !.provisioned[oauthCb.pc[q]] = @ + 1,
                                 !.rows = Append(@, oauthCb.pc[q])]
    /\ UNCHANGED <<authVars, baseExtVars, dumpFile, touchRun, gone, tokenRows>>

SpecCallbacks ==
    Init /\ [][\/ \E q \in Procs, user_id \in {1, 2} : CallbackExists(q, user_id)
               \/ \E q \in Procs : CallbackBind(q)]_vars

\* ----------------------------------------------------------------- claims
\* C1: a refresh token that refresh_tokens has accepted once is rejected by every
\* later sequential call. No refresh token is accepted twice; a call that presents an
\* accepted token fails, and it fails with TokenBlacklisted while the cache answers
\* and the token has not expired.
C1_RefreshTokenAcceptedOnce ==
    \A p \in Minted :
        /\ acceptCount[p] <= 1
        /\ acceptCount[p] = 1 =>
              /\ refresh_tokens(RefreshTok(p)).err \in
                    {"TokenBlacklistedError", "TokenExpiredError", "InvalidTokenError"}
              /\ (redisUp /\ clock < RefreshExp(p)) =>
                    refresh_tokens(RefreshTok(p)).err = "TokenBlacklistedError"

\* a refresh token has been accepted once and a further call presenting it is refused
C1_Witness ==
    \E p \in Minted :
        /\ acceptCount[p] = 1
        /\ refresh_tokens(RefreshTok(p)).err = "TokenBlacklistedError"

\* C2: of the concurrent refresh_tokens calls that present the same refresh token, at
\* most one returns a new token pair.
C2_AtMostOneConcurrentRefreshReturns ==
    \A q1 \in Procs, q2 \in Procs :
        (/\ q1 # q2
         /\ rp[q1].tok.typ = "refresh"
         /\ rp[q1].tok = rp[q2].tok
         /\ rp[q1].res = "ok") => rp[q2].res # "ok"

\* C3: an unexpired access token that was presented to a POST /auth/logout which
\* answered success is rejected by verify_token and by get_current_user until it
\* expires.
C3_LoggedOutTokenRejected ==
    \A p \in loggedOut :
        clock < AccessExp(p) =>
            /\ verify_token(AccessTok(p)) # "ok"
            /\ get_current_user(AccessTok(p)).err # "ok"

\* C4: after a successful POST /auth/logout the refresh token of the same login is
\* invalid as well: refresh_tokens does not succeed with it.
C4_LogoutInvalidatesRefreshToken ==
    \A p \in loggedOut : refresh_tokens(RefreshTok(p)).err # "ok"

\* C5: once logout_all_devices(u) has returned, refresh_tokens fails for every refresh
\* token that was registered for u before the call, and when the call returns u has no
\* session entry and no registered refresh token.
C5_LogoutAllDevicesRevokesAll ==
    /\ \A p \in revokedAll : refresh_tokens(RefreshTok(p)).err # "ok"
    /\ last.op = "logout_all" =>
          /\ session[last.uid] = 0
          /\ \A j \in refreshReg : minted[j].sub # last.uid

\* logout_all_devices has just returned and a token registered before it, still
\* unexpired, is refused as revoked
C5_Witness ==
    /\ last.op = "logout_all"
    /\ \E p \in revokedAll :
          /\ minted[p].sub = last.uid
          /\ clock < RefreshExp(p)
          /\ refresh_tokens(RefreshTok(p)).err = "TokenBlacklistedError"

\* C6: a request to a Kiro route, or to POST /v1/messages with effective config_type
\* kiro, that authenticates as a user whose stored beta flag is 0 is answered 403 and
\* reaches no upstream.
C6_StoredBetaZeroForbidden ==
    /\ \A tok \in AccessToks :
          (/\ get_current_user(tok).err = "ok"
           /\ users[minted[tok.id].sub].beta = 0) =>
              kiro_route(tok) = [status |-> 403, upstream |-> "none"]
    /\ \A cred \in BearerCreds, x \in Keys \cup {"none"}, t \in ApiTypes :
          (/\ get_user_flexible_with_x_api_key(cred, x).status = 200
           /\ messages_route(cred, x, t).config_type = "kiro"
           /\ users[get_user_flexible_with_x_api_key(cred, x).user.id].beta = 0) =>
              /\ messages_route(cred, x, t).status = 403
              /\ messages_route(cred, x, t).upstream = "none"

\* C7: once POST /auth/join-beta has set the user's beta flag to 1, a call of the same
\* user to a Kiro route, or to POST /v1/messages routed to kiro, is not answered 403,
\* however soon it follows.
C7_JoinedBetaPassesGate ==
    \A tok \in AccessToks :
        (/\ get_current_user(tok).err = "ok"
         /\ users[minted[tok.id].sub].beta = 1) =>
            /\ kiro_route(tok).status # 403
            /\ messages_route(tok, "none", "kiro").status # 403

\* C8: with the cache unavailable, get_current_user with an unexpired JWT that was
\* never logged out, of an existing active user, returns that user.
C8_JwtAuthSurvivesCacheOutage ==
    \A p \in Minted :
        (/\ ~redisUp
         /\ clock < AccessExp(p)
         /\ p \notin loggedOut
         /\ users[minted[p].sub].exists
         /\ users[minted[p].sub].is_active) =>
            /\ get_current_user(AccessTok(p)).err = "ok"
            /\ get_current_user(AccessTok(p)).user = DbUser(minted[p].sub)

\* C9: with the cache unavailable, get_user_from_api_key and
\* get_user_from_api_key_with_cache return, for an active key of an existing active
\* user, that user with the key's config_type and schedule the last-used touch; the
\* touch, which then fails, changes nothing and raises nothing.
C9_KeyAuthSurvivesCacheOutage ==
    \A k \in Keys :
        (/\ ~redisUp
         /\ apiKeys[k].exists
         /\ apiKeys[k].is_active
         /\ users[apiKeys[k].user_id].exists
         /\ users[apiKeys[k].user_id].is_active) =>
            /\ get_user_from_api_key(k).status = 200
            /\ get_user_from_api_key(k).user = DbUser(apiKeys[k].user_id)
            /\ get_user_from_api_key(k).cfg = apiKeys[k].config_type
            /\ get_user_from_api_key(k).touch
            /\ get_user_from_api_key_with_cache(k).status = 200
            /\ get_user_from_api_key_with_cache(k).user = DbUser(apiKeys[k].user_id)
            /\ get_user_from_api_key_with_cache(k).cfg = apiKeys[k].config_type
            /\ get_user_from_api_key_with_cache(k).touch
            /\ update_api_key_last_used_background(k) =
                  [throttle |-> throttle, lastUsed |-> lastUsed]

\* a request has just been authenticated by API key with the cache down, and the
\* last-used touch it scheduled is still to run against the failing cache
C9_Witness ==
    /\ last.op = "key_auth_cache_down"
    /\ ~redisUp
    /\ \E k \in Keys :
          /\ touchPending[k] > 0
          /\ apiKeys[k].user_id = last.uid
          /\ get_user_from_api_key(k).cfg = "kiro"

\* C10: verify_token fails with TokenBlacklisted whenever the token is well formed and
\* unexpired and its jti is in the blacklist.
C10_BlacklistedTokenErrorKind ==
    \A p \in Minted :
        (/\ redisUp
         /\ clock < AccessExp(p)
         /\ is_token_blacklisted(p)) =>
            verify_token(AccessTok(p)) = "TokenBlacklistedError"

\* C11: when the upstream consists of k >= 1 reasoning deltas followed by
\* m >= 1 content deltas and a chunk with finish_reason "stop" (lines the
\* loop skips, such as [DONE], aside), the translator has emitted exactly
\* message_start, content_block_start(thinking, 0), k thinking_delta at
\* index 0, content_block_stop(0), content_block_start(text, 1), m
\* text_delta at index 1, content_block_stop(1), message_delta(end_turn),
\* message_stop, in this order and nothing else.
C11_ReasoningThenContentEvents ==
    LET data == SelectSeq(upstream, LAMBDA l : l.choices)
        R == [NoDelta EXCEPT !.reasoning = "r"]
        C == [NoDelta EXCEPT !.content = "c"]
        k == Cardinality({i \in 1..Len(data) : data[i] = R})
        m == Cardinality({i \in 1..Len(data) : data[i] = C})
        shape == /\ k >= 1 /\ m >= 1 /\ Len(data) = k + m + 1
                 /\ \A i \in 1..k : data[i] = R
                 /\ \A i \in (k + 1)..(k + m) : data[i] = C
                 /\ data[k + m + 1] =
                       [NoDelta EXCEPT !.usage = "object", !.finish_reason = "stop"]
    IN (locals.pc = "done" /\ shape) =>
          events =
             <<[type |-> "message_start"],
               [type |-> "content_block_start", index |-> 0, block |-> "thinking"]>>
             \o [i \in 1..k |-> [type |-> "content_block_delta", index |-> 0,
                                 delta |-> "thinking_delta", text |-> "r"]]
             \o <<[type |-> "content_block_stop", index |-> 0],
                  [type |-> "content_block_start", index |-> 1, block |-> "text"]>>
             \o [i \in 1..m |-> [type |-> "content_block_delta", index |-> 1,
                                 delta |-> "text_delta", text |-> "c"]]
             \o <<[type |-> "content_block_stop", index |-> 1],
                  [type |-> "message_delta", stop_reason |-> "end_turn"],
                  [type |-> "message_stop"]>>
C11_Witness ==
    /\ locals.pc = "done"
    /\ upstream = <<[NoDelta EXCEPT !.reasoning = "r"], [NoDelta EXCEPT !.reasoning = "r"],
                    [NoDelta EXCEPT !.content = "c"],
                    [NoDelta EXCEPT !.usage = "object", !.finish_reason = "stop"]>>

\* C12: message_start is emitted exactly once, first, and before any
\* upstream line is consumed; and whenever the translator has stopped
\* without the upstream having raised, its output ends with exactly one
\* message_delta immediately followed by exactly one message_stop.
C12_MessageFraming ==
    LET count(t) == Cardinality({i \in 1..Len(events) : events[i].type = t})
        n == Len(events)
    IN /\ locals.pc = "init" => (upstream = <<>> /\ events = <<>>)
       /\ locals.pc # "init" =>
             (n >= 1 /\ events[1].type = "message_start" /\ count("message_start") = 1)
       /\ locals.pc \in {"done", "failed"} =>
             /\ n >= 3
             /\ events[n - 1].type = "message_delta"
             /\ events[n].type = "message_stop"
             /\ count("message_delta") = 1
             /\ count("message_stop") = 1

\* C13: the stop_reason of the final message_delta is tool_use if any tool
\* call was accumulated; otherwise it is the image of the last finish_reason
\* the upstream reported (stop -> end_turn, length -> max_tokens, tool_calls
\* and function_call -> tool_use, content_filter and unknown values ->
\* end_turn); and end_turn if the upstream reported none.
C13_FinalStopReason ==
    LET data == SelectSeq(upstream, LAMBDA l : l.choices)
        tools == \E i \in 1..Len(data) :
                    data[i].has_tool_calls /\ data[i].tool_calls # <<>>
        fins == {i \in 1..Len(data) : data[i].finish_reason # "none"}
        lastFin == data[CHOOSE i \in fins : \A j \in fins : j <= i].finish_reason
        image(f) == IF f = "stop" THEN "end_turn"
                    ELSE IF f = "length" THEN "max_tokens"
                    ELSE IF f \in {"tool_calls", "function_call"} THEN "tool_use"
                    ELSE "end_turn"
        expected == IF tools THEN "tool_use"
                    ELSE IF fins # {} THEN image(lastFin) ELSE "end_turn"
    IN /\ \A f \in {"stop", "length", "tool_calls", "function_call",
                    "content_filter", "eos"} : STOP_REASON_FROM_OPENAI(f) = image(f)
       /\ locals.pc = "done" => events[Len(events) - 1].stop_reason = expected
C13_Witness ==
    /\ locals.pc = "done"
    /\ \E i \in 1..Len(upstream) : upstream[i].has_tool_calls
    /\ \E i \in 1..Len(upstream) : upstream[i].finish_reason = "length"
    /\ events[Len(events) - 1].stop_reason = "tool_use"

C15_OAuthUpsertOneRow ==
    repoLast.op = "create_user_from_oauth" =>
        LET same == {i \in 1..Len(userRows) : userRows[i].oauth_id = repoLast.oauth_id}
        IN /\ Cardinality(same) = 1
           /\ \A i \in same : /\ userRows[i].avatar_url = repoLast.avatar_url
                               /\ userRows[i].trust_level = repoLast.trust_level

\* C16: a call of APIKeyRepository.delete or update_status reports success
\* exactly when the key id names a row whose owner is the given user id; a
\* call by any other user id, or for an absent key id, leaves every API key
\* row unchanged, and a call by the owner changes no other row.
C16_OnlyOwnerChangesKey ==
    [][repoLast'.op \in {"delete", "update_status"} =>
          LET k == repoLast'.key_id
              owner == /\ k \in KeyIds
                       /\ keyRows[k].exists
                       /\ keyRows[k].user_id = repoLast'.user_id
          IN /\ repoLast'.ok <=> owner
             /\ ~owner => keyRows' = keyRows
             /\ owner => \A j \in KeyIds \ {k} : keyRows'[j] = keyRows[j]]_vars
C16_Witness ==
    /\ repoLast.op = "delete"
    /\ ~repoLast.ok
    /\ repoLast.key_id \in KeyIds
    /\ keyRows[repoLast.key_id].exists
    /\ keyRows[repoLast.key_id].user_id # repoLast.user_id

\* C17: every authenticated call of POST /auth/join-beta for an existing
\* user returns success and leaves the stored beta at 1; it reports
\* "joined" exactly when the stored beta was not yet 1, and a call for a
\* user whose stored beta is already 1 reports "already joined" and writes
\* nothing.
C17_JoinBetaIdempotent ==
    \A tok \in AccessToks :
        LET a == get_current_user(tok)
            r == join_beta_route(tok)
        IN (a.err = "ok" /\ users[a.user.id].exists) =>
              /\ r.status = 200
              /\ r.users[a.user.id].beta = 1
              /\ \A u \in Users : u # a.user.id => r.users[u] = users[u]
              /\ IF users[a.user.id].beta = 1
                 THEN r.message = "already" /\ r.users = users
                 ELSE r.message = "joined"
C17_Witness ==
    \E tok \in AccessToks :
        /\ get_current_user(tok).err = "ok"
        /\ users[get_current_user(tok).user.id].beta = 1
        /\ join_beta_route(tok).message = "already"

\* C18: get_user_flexible resolves a Bearer credential through the API-key
\* path exactly when it starts with sk-, and through the JWT path
\* otherwise; the path not taken is not tried: an sk- credential leaves the
\* JWT user cache alone, any other credential leaves the key cache alone
\* and schedules no last-used task.
C18_FlexibleBranchesOnPrefix ==
    \A cred \in (BearerCreds \ {NoCred}) \cup {KeyCred(UnknownKey)} :
        LET r == get_user_flexible(cred) IN
        IF cred.typ = "key"
        THEN /\ r = FromKey(cred.id, get_user_from_api_key_with_cache(cred.id))
             /\ r.jwt = jwtCache
        ELSE /\ r = FromJwtFlexible(cred)
             /\ r.keyc = keyCache
             /\ r.touch = "none"
C18_Witness ==
    /\ \E k \in Keys : /\ get_user_flexible(KeyCred(k)).status = 200
                        /\ Live(keyCache[k].exp)
    /\ \E tok \in AccessToks : /\ get_user_flexible(tok).status = 200
                                /\ Live(jwtCache[minted[tok.id].sub].exp)

\* C19 (as stated): whenever an X-Api-Key header is present, whatever its
\* value, the outcome does not depend on the Authorization header.
C19_XApiKeyPresentDecidesAlone ==
    \A x_api_key \in Keys \cup {UnknownKey, ""} :
        \A c1, c2 \in BearerCreds :
            get_user_flexible_with_x_api_key(c1, x_api_key)
                = get_user_flexible_with_x_api_key(c2, x_api_key)

\* C19 (amended): when the X-Api-Key header carries a non-empty value the
\* user is resolved from it alone, whatever the Authorization header holds;
\* when it is absent or empty the Bearer credential is used with the
\* sk-/JWT branching; with no Bearer credential either, the answer is 401.
C19_NonEmptyXApiKeyDecidesAlone ==
    \A cred \in BearerCreds :
        /\ \A x_api_key \in Keys \cup {UnknownKey} :
              get_user_flexible_with_x_api_key(cred, x_api_key)
                  = FromKey(x_api_key, get_user_from_api_key_with_cache(x_api_key))
        /\ \A x_api_key \in {"none", ""} :
              LET r == get_user_flexible_with_x_api_key(cred, x_api_key) IN
              IF cred = NoCred
              THEN r.status = 401 /\ r.jwt = jwtCache /\ r.keyc = keyCache
              ELSE r = get_user_flexible(cred)
C19_Witness ==
    \E k \in Keys, tok \in AccessToks :
        /\ Live(keyCache[k].exp)
        /\ get_user_flexible_with_x_api_key(Garbage, k).status = 200
        /\ get_user_flexible_with_x_api_key(tok, UnknownKey).status = 401
        /\ get_user_flexible_with_x_api_key(tok, "none").status = 200

\* C20: every 401 answer of password login, of refresh and of the JWT-only
\* strategy carries the header WWW-Authenticate: Bearer.
C20_Every401HasWWWAuthenticate ==
    /\ \A u \in Users, pwOk \in BOOLEAN :
          LoginStatus(u, pwOk) = 401 => login_headers(u, pwOk) = "Bearer"
    /\ \A tok \in RefreshToks \cup {Garbage} :
          RefreshStatus(refresh_tokens(tok).err) = 401 =>
              refresh_token_headers(refresh_tokens(tok).err) = "Bearer"
    /\ \A tok \in JwtCreds :
          MeStatus(tok) = 401 => get_current_user_headers(get_current_user(tok).err) = "Bearer"

\* C21: whenever a PluginAPIService or KiroService call fails with an upstream HTTP error
\* of status S, the response of the route has status S, on every Plugin-API and Kiro
\* route: an upstream error is never generalized to 500.
C21_UpstreamStatusPreserved ==
    routeLast.exc.kind \in {"HTTPStatusError", "UpstreamAPIError"}
        => routeLast.status = routeLast.exc.status

C23_BetaFlexibleAcceptsJwtAndKey ==
    /\ \A tok \in AccessToks :
          get_user_flexible(tok).status = 200 =>
              require_beta_user_flexible(tok) =
                  IF get_user_flexible(tok).user.beta = 1 THEN 200 ELSE 403
    /\ \A k \in Keys :
          get_user_flexible(KeyCred(k)).status = 200 =>
              require_beta_user_flexible(KeyCred(k)) =
                  IF get_user_flexible(KeyCred(k)).user.beta = 1 THEN 200 ELSE 403

\* C24, as stated: whenever refresh_tokens raises (revoked token, user missing or disabled,
\* failure while minting or revoking), the registry of valid refresh tokens is what it
\* was before the call: no newly minted token of the failed call stays registered.
C24_FailedRefreshChangesNothing ==
    \A q \in Procs :
        rp[q].pc = "done" /\ rp[q].res # "ok" => rp[q].newp \notin refreshReg

\* C24, amended: the minting step of a refresh_tokens call registers the new jti; a step
\* of the call removes the presented jti from the registry only after that minting, it
\* removes nothing else, and it is the step that returns the pair; the step in which a
\* call raises changes nothing in the registry, and neither does any step before the
\* minting, so a call that raises never consumes the presented token and changes the
\* registry at most by the new jti.
C24_RevokeOnlyAfterMint ==
    [][\A q \in Procs :
          rp'[q] # rp[q] =>
              /\ (rp[q].tok.id \in refreshReg /\ rp[q].tok.id \notin refreshReg') =>
                    /\ rp[q].pc = "minted"
                    /\ rp[q].newp # 0
                    /\ rp'[q].res = "ok"
              /\ rp'[q].pc = "minted" => rp'[q].newp \in refreshReg'
              /\ (rp'[q].pc = "done" /\ rp'[q].res = "ok") =>
                    refreshReg' = refreshReg \ {rp[q].tok.id}
              /\ (rp'[q].pc = "done" /\ rp'[q].res # "ok") => refreshReg' = refreshReg
              /\ rp[q].pc \in {"idle", "lookedup"} => refreshReg' = refreshReg
              /\ refreshReg' \subseteq refreshReg \cup {rp'[q].newp}]_vars
C24_Witness ==
    \E q \in Procs :
        /\ rp[q].pc = "done"
        /\ rp[q].res = "InvalidTokenError"
        /\ rp[q].newp \in refreshReg
        /\ rp[q].tok.id \in refreshReg

\* C25: while the stream translator accumulates tool-call fragments, the name of a tool
\* call is written once: after a fragment has set it, no later fragment correlated to
\* the same tool call changes it, whatever name value that fragment carries.
C25_ToolNameWrittenOnce ==
    [][\A i \in 1..Len(locals.current_tool_calls) :
          locals.current_tool_calls[i].name # "" =>
              locals'.current_tool_calls[i].name = locals.current_tool_calls[i].name]_vars

\* C26: after the upstream has ended, each accumulated tool call has exactly three
\* events, content_block_start(tool_use), one content_block_delta of type
\* input_json_delta and content_block_stop, all with the block's index, also when its
\* accumulated arguments are empty or not valid JSON; the tool blocks come in increasing
\* tool-call index order, their block indices continuing after the text block's index.
C26_ToolBlockHasThreeEvents ==
    locals.pc = "done" =>
        LET starts == {i \in 1..Len(events) :
                          /\ events[i].type = "content_block_start"
                          /\ events[i].block = "tool_use"}
            first == Len(events) - 2 - 3 * Len(locals.current_tool_calls)
        IN /\ Cardinality(starts) = Len(locals.current_tool_calls)
           /\ \A k \in 1..Len(locals.current_tool_calls) :
                 LET i == first + 3 * (k - 1) + 1
                 IN /\ i \in starts
                    /\ events[i].index = events[first].index + k
                    /\ events[i + 1].type = "content_block_delta"
                    /\ events[i + 1].delta = "input_json_delta"
                    /\ events[i + 1].index = events[i].index
                    /\ events[i + 2].type = "content_block_stop"
                    /\ events[i + 2].index = events[i].index

\* C27: for every upstream sequence of reasoning, content and tool-call deltas, the
\* content blocks emitted are well formed: the block indices start at 0 and grow by one
\* with each content_block_start, at most one block is open at a time, every
\* content_block_delta and content_block_stop carries the index of the block that is
\* open, a delta's type is the one of its block, and once the stream has ended every
\* started block has been stopped exactly once.
C27_ContentBlocksWellFormed ==
    LET Starts == {i \in 1..Len(events) : events[i].type = "content_block_start"}
        Stops == {i \in 1..Len(events) : events[i].type = "content_block_stop"}
        Inner == {i \in 1..Len(events) :
                     events[i].type \in {"content_block_delta", "content_block_stop"}}
        Before(i) == {q \in Starts : q < i}
        LastStart(i) == CHOOSE q \in Before(i) : \A r \in Before(i) : r <= q
        DeltaOf(block) == CASE block = "thinking" -> "thinking_delta"
                            [] block = "text" -> "text_delta"
                            [] block = "tool_use" -> "input_json_delta"
    IN /\ \A q \in Starts :
             /\ events[q].index = Cardinality(Before(q))
             /\ Before(q) # {} => \E t \in Stops : LastStart(q) < t /\ t < q
       /\ \A i \in Inner :
             /\ Before(i) # {}
             /\ events[i].index = events[LastStart(i)].index
             /\ \A t \in Stops : ~(LastStart(i) < t /\ t < i)
             /\ events[i].type = "content_block_delta" =>
                   events[i].delta = DeltaOf(events[LastStart(i)].block)
       /\ locals.pc = "done" => Cardinality(Stops) = Cardinality(Starts)

\* C28: the lines the translator processes, and so the events it emits, depend only on
\* the concatenation of the upstream chunks and not on where the chunk boundaries
\* fall: however the text sent so far was cut, the translator has not failed and has
\* processed exactly the newline-terminated lines of that text, once each and in order.
C28_ChunkBoundariesDoNotMatter ==
    /\ feed.pc # "raised"
    /\ feed.pc = "loop" =>
          /\ utf8_decode(SubSeq(feed.text, 1, feed.pos)).ok
          /\ feed.lines =
                split_lines(utf8_decode(SubSeq(feed.text, 1, feed.pos)).chars, <<>>).lines

\* C29: if the upstream raises while a streaming POST /v1/messages response is produced,
\* before the first chunk or in mid-stream, the response ends with exactly one event of
\* type error, its last event, and no message_delta or message_stop is emitted.
C29_UpstreamFailureEndsWithError ==
    locals.pc = "raised" =>
        /\ events[Len(events)].type = "error"
        /\ Cardinality({i \in 1..Len(events) : events[i].type = "error"}) = 1
        /\ \A i \in 1..Len(events) : events[i].type \notin {"message_delta", "message_stop"}
C29_Witness ==
    /\ locals.pc = "raised"
    /\ Len(upstream) > 0
    /\ \E i \in 1..Len(events) : events[i].type = "content_block_delta"
    /\ events[Len(events)].type = "error"

\* C30: in POST /v1/messages, for every request authenticated by an API key (as Bearer
\* credential or in X-Api-Key, from the database or from an api_key_auth cache hit) the
\* backend is the config_type of the key whatever X-Api-Type says; for a request
\* authenticated by JWT the backend is the X-Api-Type value when that is kiro or
\* antigravity, and any other value is ignored.
C30_ApiTypeHeaderOnlyForJwt ==
    \A api_type \in ApiTypes :
        /\ \A k \in Keys :
              /\ get_user_flexible_with_x_api_key(KeyCred(k), "none").status = 200 =>
                    messages_route(KeyCred(k), "none", api_type).config_type
                        = apiKeys[k].config_type
              /\ \A cred \in BearerCreds :
                    get_user_flexible_with_x_api_key(cred, k).status = 200 =>
                        messages_route(cred, k, api_type).config_type
                            = apiKeys[k].config_type
        /\ \A tok \in AccessToks :
              get_user_flexible_with_x_api_key(tok, "none").status = 200 =>
                  messages_route(tok, "none", api_type).config_type
                      = IF api_type \in {"kiro", "antigravity"} THEN api_type ELSE "none"
C30_Witness ==
    \E k \in Keys :
        /\ redisUp
        /\ Live(keyCache[k].exp)
        /\ apiKeys[k].config_type = "kiro"
        /\ messages_route(KeyCred(k), "none", "antigravity").status = 200
        /\ messages_route(KeyCred(k), "none", "antigravity").config_type = "kiro"

\* C31: POST /v1/messages/count_tokens answers a request body that lacks a required
\* field (model or messages) or is otherwise malformed with status 400, not with 500.
C31_CountTokensMalformedIs400 ==
    (routeLast.route = "count_tokens" /\ routeLast.body # "valid") => routeLast.status = 400

C33_OneWritePerThrottleWindow ==
    \A i \in 1..Len(touchRun.writes), j \in 1..Len(touchRun.writes) :
        (i < j /\ touchRun.writes[i].key = touchRun.writes[j].key) =>
            touchRun.writes[j].at - touchRun.writes[i].at >= LAST_USED_THROTTLE_TTL

C36_FlexibleJwtLikeGetCurrentUser ==
    \A tok \in JwtCreds :
        LET r == get_current_user(tok)
            expected == IF r.err = "ok" THEN 200 ELSE AuthStatus(r.err)
        IN /\ get_user_flexible(tok).status = expected
           /\ get_user_flexible_with_x_api_key(tok, "none").status = expected
           /\ r.err = "ok" =>
                 /\ get_user_flexible(tok).user = r.user
                 /\ get_user_flexible_with_x_api_key(tok, "none").user = r.user

\* C37: create_user_from_oauth never fails with UserAlreadyExistsError, for every
\* OAuth identity, whether or not its oauth_id or its username is already in the table.
C37_OAuthCreateNeverAlreadyExists ==
    \A oauth_data \in [username : {"alice", "bob"}, oauth_id : {"o1", "o2"},
                       avatar_url : {"a1"}, trust_level : {0}] :
        create_user_from_oauth(userRows, oauth_data).err # "UserAlreadyExistsError"

\* C38: after any sequence of OAuthTokenRepository create, update and
\* delete_by_user_id calls the oauth_tokens table holds at most one row per user.
C38_OneTokenRowPerUser ==
    \A i \in 1..Len(tokenRows), j \in 1..Len(tokenRows) :
        tokenRows[i].user_id = tokenRows[j].user_id => i = j

\* C39: for any interleaving of OAuth callbacks of the same user, the exists-check
\* followed by auto_create_and_bind_plugin_user provisions the upstream account at
\* most once and leaves at most one PluginAPIKey row of the user.
C39_CallbacksBindOnce ==
    \A user_id \in {1, 2} :
        /\ oauthCb.provisioned[user_id] <= 1
        /\ Cardinality({i \in 1..Len(oauthCb.rows) : oauthCb.rows[i] = user_id}) <= 1

====
